---- MODULE Spec2Model ----
(***************************************************************************)
(* kitsunejs: the Result<T, E> and Option<T> containers.                   *)
(*                                                                         *)
(* The library is a set of methods over immutable two-variant containers.  *)
(* A state of the model is the last call a client made: the operation, its *)
(* inputs, and what the call produced (a returned value or a raised        *)
(* signal, plus the invocations of caller-supplied callbacks it made).     *)
(* Result.tryAsync is modelled as a process per call: the call, the        *)
(* settlement of the promise that fn returned, and the resumption of the   *)
(* async function after its await.  Chains of calls are modelled by the    *)
(* container a client holds (cur), made by a factory and replaced by what  *)
(* each container-returning method answers, and by the answers (obs) that  *)
(* the variant tests gave on it.  The loops of all and any are also taken  *)
(* one iteration at a time over containers and arrays held as objects      *)
(* (heap), with the running call in frame.                                 *)
(***************************************************************************)
EXTENDS FiniteSets, Integers, Sequences, TLC

VARIABLES op, input, outcome, tasks, cur, obs, steps, heap, frame

vars == <<op, input, outcome, tasks, cur, obs, steps, heap, frame>>

(***************************************************************************)
(* Bounds.                                                                 *)
(***************************************************************************)
MaxLen == 3

MaxAsync == 2

MaxSteps == 3

MaxInspect == 2

MaxHeap == 3

(***************************************************************************)
(* JavaScript values.  A value is a record tagged by ty: a literal (a      *)
(* primitive or an opaque object, named by its source text), an array, or  *)
(* an error object.                                                        *)
(***************************************************************************)
Lit(s) == [ty |-> "lit", lit |-> s]

Arr(items) == [ty |-> "array", items |-> items]

\* The values of JavaScript that test false, null and undefined among them.
FalsyLits == {"0", "''", "false", "null", "undefined"}

\* "cyclic" is an object that refers to itself, "10n" a BigInt.
Lits == FalsyLits \cup {"42", "cyclic", "10n"}

Values == {Lit(s) : s \in Lits}

Undefined == Lit("undefined")

Messages == {"custom message", ""}

UnwrapError(message) ==
  [ty |-> "UnwrapError", name |-> "UnwrapError", message |-> message]

TypeError(message) ==
  [ty |-> "TypeError", name |-> "TypeError", message |-> message]

(***************************************************************************)
(* Completions of a call: it returns a value or raises a signal.  calls is *)
(* the sequence of invocations of caller-supplied functions it made.       *)
(***************************************************************************)
Return(v) == [kind |-> "return", value |-> v, calls |-> <<>>]

Throw(x) == [kind |-> "throw", thrown |-> x, calls |-> <<>>]

\* The completion c of a call that first made the invocations log.
After(log, c) == [c EXCEPT !.calls = log \o c.calls]

(***************************************************************************)
(* Caller-supplied functions.  fn.k says what the function does when it is *)
(* invoked: return a constant, return its first argument, raise x,         *)
(* answer a boolean, return a container, look its argument up in a table,  *)
(* or compose two such functions.                                          *)
(***************************************************************************)
Const(v) == [k |-> "const", ret |-> v]

Id == [k |-> "id"]

Throws(x) == [k |-> "throws", x |-> x]

Pred(b) == [k |-> "pred", holds |-> b]

Bind(c) == [k |-> "bind", to |-> c]

\* A function given by its table: of[x] is what it returns on x.
Table(of) == [k |-> "table", of |-> of]

\* The function x => f(x).andThen(g).
BindThen(f, g) == [k |-> "bindThen", f |-> f, g |-> g]

\* The function x => g(f(x)).
Compose(f, g) == [k |-> "compose", f |-> f, g |-> g]

\* Sequencing: run first; if it raised, the signal propagates, otherwise
\* continue with rest applied to its value.
Then(first, rest(_)) ==
  IF first.kind = "throw" THEN first ELSE After(first.calls, rest(first.value))

RECURSIVE Invoke(_, _), Result_andThen(_, _), Option_andThen(_, _)
Invoke(fn, args) ==
  After(<<[fn |-> fn, args |-> args]>>,
        CASE fn.k = "const" -> Return(fn.ret)
          [] fn.k = "id" -> Return(args[1])
          [] fn.k = "throws" -> Throw(fn.x)
          [] fn.k = "pred" -> Return(fn.holds)
          [] fn.k = "bind" -> Return(fn.to)
          [] fn.k = "table" -> Return(fn.of[args[1]])
          [] fn.k = "bindThen" ->
               Then(Invoke(fn.f, args),
                    LAMBDA r : IF r.tag \in {"Ok", "Err"}
                                 THEN Result_andThen(r, fn.g)
                                 ELSE Option_andThen(r, fn.g))
          [] fn.k = "compose" ->
               Then(Invoke(fn.f, args), LAMBDA y : Invoke(fn.g, <<y>>)))

(***************************************************************************)
(* JSON.stringify and template-literal rendering, as far as Err.unwrap     *)
(* uses them.  JSON.stringify raises a TypeError on a cyclic structure and *)
(* on a BigInt, and yields undefined for undefined.                        *)
(***************************************************************************)
JSON_lit(s) ==
  CASE s = "''" -> "\"\""
    [] s = "undefined" -> "null"
    [] OTHER -> s

RECURSIVE JSON_items(_)
JSON_items(items) ==
  IF items = <<>> THEN ""
  ELSE (IF items[1].ty = "array"
          THEN "[" \o JSON_items(items[1].items) \o "]"
          ELSE JSON_lit(items[1].lit))
       \o (IF Len(items) > 1 THEN "," ELSE "")
       \o JSON_items(Tail(items))

RECURSIVE JSON_throws(_)
JSON_throws(v) ==
  CASE v.ty = "lit" -> v.lit \in {"cyclic", "10n"}
    [] v.ty = "array" -> \E i \in 1..Len(v.items) : JSON_throws(v.items[i])
    [] OTHER -> FALSE

JSON_stringify(v) ==
  IF JSON_throws(v)
    THEN Throw(TypeError("JSON.stringify"))
    ELSE Return(CASE v.ty = "lit" ->
                       IF v.lit = "undefined" THEN "undefined"
                       ELSE JSON_lit(v.lit)
                  [] v.ty = "array" -> "[" \o JSON_items(v.items) \o "]"
                  [] OTHER -> "{}")

(***************************************************************************)
(* class Ok<T, E>                                                          *)
(***************************************************************************)
Ok(value) == [tag |-> "Ok", value |-> value]

Err(error) == [tag |-> "Err", error |-> error]

Some(value) == [tag |-> "Some", value |-> value]

None == [tag |-> "None"]

Option_none == Return(None)

Option_some(value) == Return(Some(value))

Ok_isOk(self) == Return(TRUE)

Ok_isErr(self) == Return(FALSE)

Ok_isOkAnd(self, predicate) == Invoke(predicate, <<self.value>>)

Ok_isErrAnd(self, predicate) == Return(FALSE)

Ok_unwrap(self) == Return(self.value)

Ok_expect(self, message) == Return(self.value)

Ok_unwrapErr(self) == Throw(UnwrapError("Called unwrapErr on an Ok value"))

Ok_expectErr(self, message) == Throw(UnwrapError(message))

Ok_unwrapOr(self, defaultValue) == Return(self.value)

Ok_unwrapOrElse(self, fn) == Return(self.value)

\* Mutant of Ok_map: a raise of fn is caught and turned into an Err.
Ok_map_catching(self, fn) ==
  LET c == Invoke(fn, <<self.value>>)
  IN  IF c.kind = "throw" THEN After(c.calls, Return(Err(c.thrown)))
      ELSE After(c.calls, Return(Ok(c.value)))

Ok_map(self, fn) ==
  Then(Invoke(fn, <<self.value>>), LAMBDA u : Return(Ok(u)))

Ok_mapOr(self, defaultValue, fn) == Invoke(fn, <<self.value>>)

Ok_mapOrElse(self, defaultFn, fn) == Invoke(fn, <<self.value>>)

Ok_mapErr(self, fn) == Return(self)

Ok_inspect(self, fn) ==
  Then(Invoke(fn, <<self.value>>), LAMBDA u : Return(self))

Ok_inspectErr(self, fn) == Return(self)

Ok_and(self, other) == Return(other)

Ok_or(self, other) == Return(self)

Ok_andThen(self, fn) == Invoke(fn, <<self.value>>)

Ok_orElse(self, fn) == Return(self)

Ok_toOption(self) == Option_some(self.value)

Ok_err(self) == Option_none

(***************************************************************************)
(* class Err<T, E>                                                         *)
(***************************************************************************)
\* Mutant of Err_isOk: the answer of the Ok class.
Err_isOk_true(self) == Return(TRUE)

Err_isOk(self) == Return(FALSE)

Err_isErr(self) == Return(TRUE)

\* A variant of isOkAnd on Err that asks the predicate about the error.
Err_isOkAnd_invokes(self, predicate) == Invoke(predicate, <<self.error>>)

Err_isOkAnd(self, predicate) == Return(FALSE)

Err_isErrAnd(self, predicate) == Invoke(predicate, <<self.error>>)

Err_unwrap(self) ==
  Then(JSON_stringify(self.error),
       LAMBDA s : Throw(UnwrapError("Called unwrap on an Err value: " \o s)))

\* Mutant of Err_expect: the caller's message is dropped.
Err_expect_default(self, message) ==
  Throw(UnwrapError("Called expect on an Err value"))

Err_expect(self, message) == Throw(UnwrapError(message))

Err_unwrapErr(self) == Return(self.error)

Err_expectErr(self, message) == Return(self.error)

\* A variant of unwrapOr on Err that answers undefined.
Err_unwrapOr_undefined(self, defaultValue) == Return(Undefined)

Err_unwrapOr(self, defaultValue) == Return(defaultValue)

\* Mutant of Err_unwrapOrElse: a raise of fn is swallowed.
Err_unwrapOrElse_swallow(self, fn) ==
  LET c == Invoke(fn, <<self.error>>)
  IN  IF c.kind = "throw" THEN After(c.calls, Return(Undefined)) ELSE c

Err_unwrapOrElse(self, fn) == Invoke(fn, <<self.error>>)

\* Mutant of Err_map: fn is applied to the error, as in mapErr.
Err_map_applies(self, fn) ==
  Then(Invoke(fn, <<self.error>>), LAMBDA f : Return(Err(f)))

Err_map(self, fn) == Return(self)

Err_mapOr(self, defaultValue, fn) == Return(defaultValue)

Err_mapOrElse(self, defaultFn, fn) == Invoke(defaultFn, <<self.error>>)

Err_mapErr(self, fn) ==
  Then(Invoke(fn, <<self.error>>), LAMBDA f : Return(Err(f)))

Err_inspect(self, fn) == Return(self)

\* A variant of inspectErr on Err that keeps what fn returned as the error.
Err_inspectErr_maps(self, fn) ==
  Then(Invoke(fn, <<self.error>>), LAMBDA u : Return(Err(u)))

Err_inspectErr(self, fn) ==
  Then(Invoke(fn, <<self.error>>), LAMBDA u : Return(self))

Err_and(self, other) == Return(self)

\* Mutant of Err_or: the receiver is kept, as in Ok.or.
Err_or_self(self, other) == Return(self)

Err_or(self, other) == Return(other)

\* A variant of andThen on Err that turns the error into a success.
Err_andThen_recovers(self, fn) == Return(Ok(self.error))

Err_andThen(self, fn) == Return(self)

Err_orElse(self, fn) == Invoke(fn, <<self.error>>)

\* A variant of toOption on Err that carries the error over as the value.
Err_toOption_keeps(self) == Option_some(self.error)

Err_toOption(self) == Option_none

Err_err(self) == Option_some(self.error)

(***************************************************************************)
(* abstract class Result<T, E>: a call of an abstract method runs the      *)
(* override of the receiver's class.                                       *)
(***************************************************************************)
Result_isOk(self) == IF self.tag = "Ok" THEN Ok_isOk(self) ELSE Err_isOk(self)

Result_isErr(self) ==
  IF self.tag = "Ok" THEN Ok_isErr(self) ELSE Err_isErr(self)

Result_isOkAnd(self, predicate) ==
  IF self.tag = "Ok" THEN Ok_isOkAnd(self, predicate)
  ELSE Err_isOkAnd(self, predicate)

Result_isErrAnd(self, predicate) ==
  IF self.tag = "Ok" THEN Ok_isErrAnd(self, predicate)
  ELSE Err_isErrAnd(self, predicate)

Result_unwrap(self) ==
  IF self.tag = "Ok" THEN Ok_unwrap(self) ELSE Err_unwrap(self)

Result_expect(self, message) ==
  IF self.tag = "Ok" THEN Ok_expect(self, message)
  ELSE Err_expect(self, message)

Result_unwrapErr(self) ==
  IF self.tag = "Ok" THEN Ok_unwrapErr(self) ELSE Err_unwrapErr(self)

Result_expectErr(self, message) ==
  IF self.tag = "Ok" THEN Ok_expectErr(self, message)
  ELSE Err_expectErr(self, message)

Result_unwrapOr(self, defaultValue) ==
  IF self.tag = "Ok" THEN Ok_unwrapOr(self, defaultValue)
  ELSE Err_unwrapOr(self, defaultValue)

Result_unwrapOrElse(self, fn) ==
  IF self.tag = "Ok" THEN Ok_unwrapOrElse(self, fn)
  ELSE Err_unwrapOrElse(self, fn)

Result_map(self, fn) ==
  IF self.tag = "Ok" THEN Ok_map(self, fn) ELSE Err_map(self, fn)

Result_mapOr(self, defaultValue, fn) ==
  IF self.tag = "Ok" THEN Ok_mapOr(self, defaultValue, fn)
  ELSE Err_mapOr(self, defaultValue, fn)

Result_mapOrElse(self, defaultFn, fn) ==
  IF self.tag = "Ok" THEN Ok_mapOrElse(self, defaultFn, fn)
  ELSE Err_mapOrElse(self, defaultFn, fn)

Result_mapErr(self, fn) ==
  IF self.tag = "Ok" THEN Ok_mapErr(self, fn) ELSE Err_mapErr(self, fn)

Result_inspect(self, fn) ==
  IF self.tag = "Ok" THEN Ok_inspect(self, fn) ELSE Err_inspect(self, fn)

Result_inspectErr(self, fn) ==
  IF self.tag = "Ok" THEN Ok_inspectErr(self, fn)
  ELSE Err_inspectErr(self, fn)

Result_and(self, other) ==
  IF self.tag = "Ok" THEN Ok_and(self, other) ELSE Err_and(self, other)

Result_or(self, other) ==
  IF self.tag = "Ok" THEN Ok_or(self, other) ELSE Err_or(self, other)

Result_andThen(self, fn) ==
  IF self.tag = "Ok" THEN Ok_andThen(self, fn) ELSE Err_andThen(self, fn)

Result_orElse(self, fn) ==
  IF self.tag = "Ok" THEN Ok_orElse(self, fn) ELSE Err_orElse(self, fn)

Result_toOption(self) ==
  IF self.tag = "Ok" THEN Ok_toOption(self) ELSE Err_toOption(self)

Result_errOption(self) ==
  IF self.tag = "Ok" THEN Ok_err(self) ELSE Err_err(self)

(***************************************************************************)
(* Static members of Result.                                               *)
(***************************************************************************)
Result_err(error) == Return(Err(error))

Result_ok(value) == Return(Ok(value))

\* A variant of fromNullable that tests truthiness instead of nullness.
Result_fromNullable_falsy(value, error) ==
  IF value.ty = "lit" /\ value.lit \in FalsyLits
    THEN Result_err(error)
    ELSE Result_ok(value)

Result_fromNullable(value, error) ==
  IF value = Lit("null") \/ value = Lit("undefined")
    THEN Result_err(error)
    ELSE Result_ok(value)

\* Mutant of Result_try: no catch clause.
Result_try_uncaught(fn) ==
  Then(Invoke(fn, <<>>), LAMBDA v : Result_ok(v))

\* try { return Result.ok(fn()) } catch (error) { return Result.err(error) }
Result_try(fn) ==
  LET body == Then(Invoke(fn, <<>>), LAMBDA v : Result_ok(v))
  IN  IF body.kind = "throw"
        THEN After(body.calls, Result_err(body.thrown))
        ELSE body

\* The for-of loop of Result.all from index i on, values being the array
\* accumulated so far.
\* Mutant of Result_all_loop: the scan goes on after an Err, so that a later
\* Err replaces an earlier one.
RECURSIVE Result_all_loop_lastErr(_, _, _)
Result_all_loop_lastErr(results, i, values) ==
  IF i > Len(results)
    THEN Result_ok(Arr(values))
    ELSE LET r == results[i]
             rest == Result_all_loop_lastErr(results, i + 1,
                                             IF r.tag = "Ok"
                                               THEN Append(values, r.value)
                                               ELSE values)
         IN  IF r.tag = "Err" /\ rest.value.tag = "Ok" THEN Return(r) ELSE rest

RECURSIVE Result_all_loop(_, _, _)
Result_all_loop(results, i, values) ==
  IF i > Len(results)
    THEN Result_ok(Arr(values))
    ELSE LET r == results[i]
         IN  Then(Result_isErr(r),
                  LAMBDA isErr :
                    IF isErr
                      THEN Return(r)
                      ELSE Then(Result_unwrap(r),
                                LAMBDA v :
                                  Result_all_loop(results, i + 1,
                                                  Append(values, v))))

Result_all(results) == Result_all_loop(results, 1, <<>>)

\* The for-of loop of Result.any from index i on.  The callback given to
\* unwrapOrElse pushes the error and returns undefined.
\* Mutant of Result_any_loop: the errors are accumulated in front, so that
\* they come out in reverse order.
RECURSIVE Result_any_loop_reversed(_, _, _)
Result_any_loop_reversed(results, i, errors) ==
  IF i > Len(results)
    THEN Result_err(Arr(errors))
    ELSE LET r == results[i]
         IN  IF r.tag = "Ok"
               THEN Return(r)
               ELSE Result_any_loop_reversed(results, i + 1,
                                             <<r.error>> \o errors)

RECURSIVE Result_any_loop(_, _, _)
Result_any_loop(results, i, errors) ==
  IF i > Len(results)
    THEN Result_err(Arr(errors))
    ELSE LET r == results[i]
         IN  Then(Result_isOk(r),
                  LAMBDA isOk :
                    IF isOk
                      THEN Return(r)
                      ELSE LET c == Result_unwrapOrElse(r, Const(Undefined))
                               pushed == [j \in 1..Len(c.calls) |->
                                            c.calls[j].args[1]]
                           IN  Then(c,
                                    LAMBDA u :
                                      Result_any_loop(results, i + 1,
                                                      errors \o pushed)))

\* The callback of the loop is the library's own: it is not part of the
\* caller-supplied invocations of the call.
Result_any(results) ==
  [Result_any_loop(results, 1, <<>>) EXCEPT !.calls = <<>>]

(***************************************************************************)
(* class Some<T>                                                           *)
(***************************************************************************)
Some_isSome(self) == Return(TRUE)

Some_isNone(self) == Return(FALSE)

Some_isSomeAnd(self, predicate) == Invoke(predicate, <<self.value>>)

Some_isNoneOr(self, predicate) == Invoke(predicate, <<self.value>>)

Some_unwrap(self) == Return(self.value)

Some_expect(self, message) == Return(self.value)

Some_unwrapOr(self, defaultValue) == Return(self.value)

Some_unwrapOrElse(self, fn) == Return(self.value)

\* A variant of map on Some that applies the function a second time to its
\* own result.
Some_map_twice(self, fn) ==
  Then(Invoke(fn, <<self.value>>),
       LAMBDA u : Then(Invoke(fn, <<u>>), LAMBDA w : Return(Some(w))))

Some_map(self, fn) ==
  Then(Invoke(fn, <<self.value>>), LAMBDA u : Return(Some(u)))

Some_mapOr(self, defaultValue, fn) == Invoke(fn, <<self.value>>)

Some_mapOrElse(self, defaultFn, fn) == Invoke(fn, <<self.value>>)

Some_and(self, other) == Return(other)

Some_or(self, other) == Return(self)

Some_andThen(self, fn) == Invoke(fn, <<self.value>>)

\* A variant of filter on Some that keeps the value when the predicate fails.
Some_filter_inverted(self, predicate) ==
  Then(Invoke(predicate, <<self.value>>),
       LAMBDA b : IF b THEN Option_none ELSE Return(self))

Some_filter(self, predicate) ==
  Then(Invoke(predicate, <<self.value>>),
       LAMBDA b : IF b THEN Return(self) ELSE Option_none)

\* A variant of toResult on Some that answers with the supplied error.
Some_toResult_err(self, error) == Result_err(error)

Some_toResult(self, error) == Result_ok(self.value)

\* A variant of toResultElse on Some that evaluates the error function
\* eagerly.
Some_toResultElse_eager(self, fn) ==
  Then(Invoke(fn, <<>>), LAMBDA e : Result_ok(self.value))

Some_toResultElse(self, fn) == Result_ok(self.value)

(***************************************************************************)
(* class None<T>                                                           *)
(***************************************************************************)
None_isSome(self) == Return(FALSE)

None_isNone(self) == Return(TRUE)

None_isSomeAnd(self, predicate) == Return(FALSE)

None_isNoneOr(self, predicate) == Return(TRUE)

None_unwrap(self) == Throw(UnwrapError("Called unwrap on a None value"))

None_expect(self, message) == Throw(UnwrapError(message))

None_unwrapOr(self, defaultValue) == Return(defaultValue)

None_unwrapOrElse(self, fn) == Invoke(fn, <<>>)

None_map(self, fn) == Option_none

None_mapOr(self, defaultValue, fn) == Return(defaultValue)

None_mapOrElse(self, defaultFn, fn) == Invoke(defaultFn, <<>>)

None_and(self, other) == Option_none

None_or(self, other) == Return(other)

None_andThen(self, fn) == Option_none

None_filter(self, predicate) == Return(self)

None_toResult(self, error) == Result_err(error)

None_toResultElse(self, fn) ==
  Then(Invoke(fn, <<>>), LAMBDA e : Result_err(e))

(***************************************************************************)
(* abstract class Option<T>                                                *)
(***************************************************************************)
Option_isSome(self) ==
  IF self.tag = "Some" THEN Some_isSome(self) ELSE None_isSome(self)

Option_isNone(self) ==
  IF self.tag = "Some" THEN Some_isNone(self) ELSE None_isNone(self)

Option_isSomeAnd(self, predicate) ==
  IF self.tag = "Some" THEN Some_isSomeAnd(self, predicate)
  ELSE None_isSomeAnd(self, predicate)

Option_isNoneOr(self, predicate) ==
  IF self.tag = "Some" THEN Some_isNoneOr(self, predicate)
  ELSE None_isNoneOr(self, predicate)

Option_unwrap(self) ==
  IF self.tag = "Some" THEN Some_unwrap(self) ELSE None_unwrap(self)

Option_expect(self, message) ==
  IF self.tag = "Some" THEN Some_expect(self, message)
  ELSE None_expect(self, message)

Option_unwrapOr(self, defaultValue) ==
  IF self.tag = "Some" THEN Some_unwrapOr(self, defaultValue)
  ELSE None_unwrapOr(self, defaultValue)

Option_unwrapOrElse(self, fn) ==
  IF self.tag = "Some" THEN Some_unwrapOrElse(self, fn)
  ELSE None_unwrapOrElse(self, fn)

Option_map(self, fn) ==
  IF self.tag = "Some" THEN Some_map(self, fn) ELSE None_map(self, fn)

Option_mapOr(self, defaultValue, fn) ==
  IF self.tag = "Some" THEN Some_mapOr(self, defaultValue, fn)
  ELSE None_mapOr(self, defaultValue, fn)

Option_mapOrElse(self, defaultFn, fn) ==
  IF self.tag = "Some" THEN Some_mapOrElse(self, defaultFn, fn)
  ELSE None_mapOrElse(self, defaultFn, fn)

Option_and(self, other) ==
  IF self.tag = "Some" THEN Some_and(self, other) ELSE None_and(self, other)

Option_or(self, other) ==
  IF self.tag = "Some" THEN Some_or(self, other) ELSE None_or(self, other)

Option_andThen(self, fn) ==
  IF self.tag = "Some" THEN Some_andThen(self, fn) ELSE None_andThen(self, fn)

Option_filter(self, predicate) ==
  IF self.tag = "Some" THEN Some_filter(self, predicate)
  ELSE None_filter(self, predicate)

Option_toResult(self, error) ==
  IF self.tag = "Some" THEN Some_toResult(self, error)
  ELSE None_toResult(self, error)

Option_toResultElse(self, fn) ==
  IF self.tag = "Some" THEN Some_toResultElse(self, fn)
  ELSE None_toResultElse(self, fn)

Option_orElse(self, fn) ==
  Then(Option_isSome(self),
       LAMBDA isSome : IF isSome THEN Return(self) ELSE Invoke(fn, <<>>))

\* A variant of xor that keeps the receiver when both are Some, as or does.
Option_xor_first(self, other) ==
  Then(Option_isSome(self),
       LAMBDA selfSome : IF selfSome THEN Return(self) ELSE Return(other))

Option_xor(self, other) ==
  Then(Option_isSome(self),
       LAMBDA selfSome :
         Then(Option_isSome(other),
              LAMBDA otherSome :
                IF selfSome
                  THEN (IF otherSome THEN Option_none ELSE Return(self))
                  ELSE (IF otherSome THEN Return(other) ELSE Return(self))))

\* this.isSome() && other.isSome()
BothSome(self, other) ==
  Then(Option_isSome(self),
       LAMBDA selfSome :
         IF selfSome THEN Option_isSome(other) ELSE Return(FALSE))

\* Mutant of Option_zip: both values are unwrapped without the test that
\* both are Some.
Option_zip_unchecked(self, other) ==
  Then(Option_unwrap(self),
       LAMBDA a :
         Then(Option_unwrap(other), LAMBDA b : Option_some(Arr(<<a, b>>))))

Option_zip(self, other) ==
  Then(BothSome(self, other),
       LAMBDA both :
         IF both
           THEN Then(Option_unwrap(self),
                     LAMBDA a :
                       Then(Option_unwrap(other),
                            LAMBDA b : Option_some(Arr(<<a, b>>))))
           ELSE Option_none)

Option_zipWith(self, other, fn) ==
  Then(BothSome(self, other),
       LAMBDA both :
         IF both
           THEN Then(Option_unwrap(self),
                     LAMBDA a :
                       Then(Option_unwrap(other),
                            LAMBDA b :
                              Then(Invoke(fn, <<a, b>>),
                                   LAMBDA r : Option_some(r))))
           ELSE Option_none)

\* const [a, b] = this.unwrap(): the receiver is an Option<[A, B]>.
\* A variant of unzip that hands the two halves back in the other order.
Option_unzip_swapped(self) ==
  Then(Option_isSome(self),
       LAMBDA isSome :
         IF isSome
           THEN Then(Option_unwrap(self),
                     LAMBDA pair :
                       Return(<<Some(pair.items[2]), Some(pair.items[1])>>))
           ELSE Return(<<None, None>>))

Option_unzip(self) ==
  Then(Option_isSome(self),
       LAMBDA isSome :
         IF isSome
           THEN Then(Option_unwrap(self),
                     LAMBDA pair :
                       Return(<<Some(pair.items[1]), Some(pair.items[2])>>))
           ELSE Return(<<None, None>>))

Option_fromNullable(value) ==
  IF value = Lit("null") \/ value = Lit("undefined")
    THEN Option_none
    ELSE Option_some(value)

\* A variant of the loop of Option.all that passes over a None and collects
\* the values of the others.
RECURSIVE Option_all_loop_skips(_, _, _)
Option_all_loop_skips(options, i, values) ==
  IF i > Len(options)
    THEN Option_some(Arr(values))
    ELSE LET o == options[i]
         IN  Option_all_loop_skips(options, i + 1,
                                   IF o.tag = "None" THEN values
                                   ELSE Append(values, o.value))

RECURSIVE Option_all_loop(_, _, _)
Option_all_loop(options, i, values) ==
  IF i > Len(options)
    THEN Option_some(Arr(values))
    ELSE LET o == options[i]
         IN  Then(Option_isNone(o),
                  LAMBDA isNone :
                    IF isNone
                      THEN Option_none
                      ELSE Then(Option_unwrap(o),
                                LAMBDA v :
                                  Option_all_loop(options, i + 1,
                                                  Append(values, v))))

Option_all(options) == Option_all_loop(options, 1, <<>>)

\* Mutant of Option_any_loop: the last Some wins instead of the first.
RECURSIVE Option_any_loop_last(_, _)
Option_any_loop_last(options, i) ==
  IF i > Len(options)
    THEN Option_none
    ELSE LET o == options[i]
             rest == Option_any_loop_last(options, i + 1)
         IN  IF rest.value.tag = "Some" \/ o.tag = "None" THEN rest
             ELSE Return(o)

RECURSIVE Option_any_loop(_, _)
Option_any_loop(options, i) ==
  IF i > Len(options)
    THEN Option_none
    ELSE LET o == options[i]
         IN  Then(Option_isSome(o),
                  LAMBDA isSome :
                    IF isSome THEN Return(o)
                    ELSE Option_any_loop(options, i + 1))

Option_any(options) == Option_any_loop(options, 1)

(***************************************************************************)
(* The inputs a client may pass.                                           *)
(***************************************************************************)
\* Payloads of the elements of the arrays given to all / any.
ElemValues == {Lit("0"), Lit("undefined"), Lit("42"), Lit("cyclic")}

\* Values that callbacks return or raise.
CbValues == {Lit("0"), Lit("undefined"), Lit("42"), Lit("cyclic")}

Results == {Ok(v) : v \in Values} \cup {Err(v) : v \in Values}

Options == {Some(v) : v \in Values} \cup {None}

PairOptions ==
  {Some(Arr(<<a, b>>)) : a \in ElemValues, b \in ElemValues} \cup {None}

SeqsUpTo(S, n) == UNION {[1..k -> S] : k \in 0..n}

ResultArrays ==
  SeqsUpTo({Ok(v) : v \in ElemValues} \cup {Err(v) : v \in ElemValues},
           MaxLen)

OptionArrays == SeqsUpTo({Some(v) : v \in ElemValues} \cup {None}, MaxLen)

Throwers == {Throws(x) : x \in CbValues}

\* Functions of no argument; one of them raises an error object.
Thunks ==
  {Const(v) : v \in Values} \cup Throwers
    \cup {Throws(UnwrapError("custom message"))}

Mappers == {Const(v) : v \in CbValues} \cup {Id} \cup Throwers

Predicates == {Pred(b) : b \in BOOLEAN} \cup Throwers

ResultBinders ==
  {Bind(c) : c \in {Ok(Lit("42")), Ok(Undefined), Err(Lit("0")),
                    Err(Lit("cyclic"))}}
    \cup Throwers

OptionBinders ==
  {Bind(c) : c \in {Some(Lit("42")), Some(Undefined), None}} \cup Throwers

\* rs.map(r => r.toOption())
ToOptions(results) ==
  [j \in 1..Len(results) |-> Result_toOption(results[j]).value]

\* Inputs of the composed calls: functions given by tables over LawValues.
LawValues == {Lit("0"), Lit("42")}

LawResults == {Ok(v) : v \in LawValues} \cup {Err(v) : v \in LawValues}

LawOptions == {Some(v) : v \in LawValues} \cup {None}

LawMappers == {Table(t) : t \in [LawValues -> LawValues]}

LawResultBinders == {Table(t) : t \in [LawValues -> LawResults]}

LawOptionBinders == {Table(t) : t \in [LawValues -> LawOptions]}

(***************************************************************************)
(* The state machine of synchronous calls: each action is one call of one  *)
(* operation of the library by a client.  The library keeps no state of    *)
(* its own, so a behaviour is one call on freshly chosen inputs.           *)
(***************************************************************************)
Idle == [pc |-> "idle"]

Init ==
  /\ op = "none"
  /\ input = [none |-> TRUE]
  /\ outcome = [kind |-> "none"]
  /\ tasks = [i \in 1..MaxAsync |-> Idle]
  /\ cur = [tag |-> "none"]
  /\ obs = <<>>
  /\ steps = 0
  /\ heap = <<>>
  /\ frame = Idle

\* Each action below is one call by a client that has not called yet: op and
\* input record the call, outcome its completion.
NotCalled == outcome.kind = "none"

Call_Result_isOk ==
  /\ NotCalled
  /\ \E self \in Results :
       /\ op' = "Result.isOk"
       /\ input' = [self |-> self]
       /\ outcome' = Result_isOk(self)
  /\ UNCHANGED <<tasks, cur, obs, steps, heap, frame>>

Call_Result_isErr ==
  /\ NotCalled
  /\ \E self \in Results :
       /\ op' = "Result.isErr"
       /\ input' = [self |-> self]
       /\ outcome' = Result_isErr(self)
  /\ UNCHANGED <<tasks, cur, obs, steps, heap, frame>>

Call_Result_unwrap ==
  /\ NotCalled
  /\ \E self \in Results :
       /\ op' = "Result.unwrap"
       /\ input' = [self |-> self]
       /\ outcome' = Result_unwrap(self)
  /\ UNCHANGED <<tasks, cur, obs, steps, heap, frame>>

Call_Result_unwrapErr ==
  /\ NotCalled
  /\ \E self \in Results :
       /\ op' = "Result.unwrapErr"
       /\ input' = [self |-> self]
       /\ outcome' = Result_unwrapErr(self)
  /\ UNCHANGED <<tasks, cur, obs, steps, heap, frame>>

Call_Result_toOption ==
  /\ NotCalled
  /\ \E self \in Results :
       /\ op' = "Result.toOption"
       /\ input' = [self |-> self]
       /\ outcome' = Result_toOption(self)
  /\ UNCHANGED <<tasks, cur, obs, steps, heap, frame>>

Call_Result_errOption ==
  /\ NotCalled
  /\ \E self \in Results :
       /\ op' = "Result.err()"
       /\ input' = [self |-> self]
       /\ outcome' = Result_errOption(self)
  /\ UNCHANGED <<tasks, cur, obs, steps, heap, frame>>

Call_Result_isOkAnd ==
  /\ NotCalled
  /\ \E self \in Results, predicate \in Predicates :
       /\ op' = "Result.isOkAnd"
       /\ input' = [self |-> self, fn |-> predicate]
       /\ outcome' = Result_isOkAnd(self, predicate)
  /\ UNCHANGED <<tasks, cur, obs, steps, heap, frame>>

Call_Result_isErrAnd ==
  /\ NotCalled
  /\ \E self \in Results, predicate \in Predicates :
       /\ op' = "Result.isErrAnd"
       /\ input' = [self |-> self, fn |-> predicate]
       /\ outcome' = Result_isErrAnd(self, predicate)
  /\ UNCHANGED <<tasks, cur, obs, steps, heap, frame>>

Call_Result_expect ==
  /\ NotCalled
  /\ \E self \in Results, message \in Messages :
       /\ op' = "Result.expect"
       /\ input' = [self |-> self, message |-> message]
       /\ outcome' = Result_expect(self, message)
  /\ UNCHANGED <<tasks, cur, obs, steps, heap, frame>>

Call_Result_expectErr ==
  /\ NotCalled
  /\ \E self \in Results, message \in Messages :
       /\ op' = "Result.expectErr"
       /\ input' = [self |-> self, message |-> message]
       /\ outcome' = Result_expectErr(self, message)
  /\ UNCHANGED <<tasks, cur, obs, steps, heap, frame>>

Call_Result_unwrapOr ==
  /\ NotCalled
  /\ \E self \in Results, defaultValue \in Values :
       /\ op' = "Result.unwrapOr"
       /\ input' = [self |-> self, defaultValue |-> defaultValue]
       /\ outcome' = Result_unwrapOr(self, defaultValue)
  /\ UNCHANGED <<tasks, cur, obs, steps, heap, frame>>

Call_Result_unwrapOrElse ==
  /\ NotCalled
  /\ \E self \in Results, fn \in Mappers :
       /\ op' = "Result.unwrapOrElse"
       /\ input' = [self |-> self, fn |-> fn]
       /\ outcome' = Result_unwrapOrElse(self, fn)
  /\ UNCHANGED <<tasks, cur, obs, steps, heap, frame>>

Call_Result_map ==
  /\ NotCalled
  /\ \E self \in Results, fn \in Mappers :
       /\ op' = "Result.map"
       /\ input' = [self |-> self, fn |-> fn]
       /\ outcome' = Result_map(self, fn)
  /\ UNCHANGED <<tasks, cur, obs, steps, heap, frame>>

Call_Result_mapErr ==
  /\ NotCalled
  /\ \E self \in Results, fn \in Mappers :
       /\ op' = "Result.mapErr"
       /\ input' = [self |-> self, fn |-> fn]
       /\ outcome' = Result_mapErr(self, fn)
  /\ UNCHANGED <<tasks, cur, obs, steps, heap, frame>>

Call_Result_inspect ==
  /\ NotCalled
  /\ \E self \in Results, fn \in Mappers :
       /\ op' = "Result.inspect"
       /\ input' = [self |-> self, fn |-> fn]
       /\ outcome' = Result_inspect(self, fn)
  /\ UNCHANGED <<tasks, cur, obs, steps, heap, frame>>

Call_Result_inspectErr ==
  /\ NotCalled
  /\ \E self \in Results, fn \in Mappers :
       /\ op' = "Result.inspectErr"
       /\ input' = [self |-> self, fn |-> fn]
       /\ outcome' = Result_inspectErr(self, fn)
  /\ UNCHANGED <<tasks, cur, obs, steps, heap, frame>>

Call_Result_mapOr ==
  /\ NotCalled
  /\ \E self \in Results, defaultValue \in CbValues, fn \in Mappers :
       /\ op' = "Result.mapOr"
       /\ input' = [self |-> self, defaultValue |-> defaultValue, fn |-> fn]
       /\ outcome' = Result_mapOr(self, defaultValue, fn)
  /\ UNCHANGED <<tasks, cur, obs, steps, heap, frame>>

Call_Result_mapOrElse ==
  /\ NotCalled
  /\ \E self \in Results, defaultFn \in Mappers, fn \in Mappers :
       /\ op' = "Result.mapOrElse"
       /\ input' = [self |-> self, defaultFn |-> defaultFn, fn |-> fn]
       /\ outcome' = Result_mapOrElse(self, defaultFn, fn)
  /\ UNCHANGED <<tasks, cur, obs, steps, heap, frame>>

Call_Result_and ==
  /\ NotCalled
  /\ \E self \in Results, other \in Results :
       /\ op' = "Result.and"
       /\ input' = [self |-> self, other |-> other]
       /\ outcome' = Result_and(self, other)
  /\ UNCHANGED <<tasks, cur, obs, steps, heap, frame>>

Call_Result_or ==
  /\ NotCalled
  /\ \E self \in Results, other \in Results :
       /\ op' = "Result.or"
       /\ input' = [self |-> self, other |-> other]
       /\ outcome' = Result_or(self, other)
  /\ UNCHANGED <<tasks, cur, obs, steps, heap, frame>>

Call_Result_andThen ==
  /\ NotCalled
  /\ \E self \in Results, fn \in ResultBinders :
       /\ op' = "Result.andThen"
       /\ input' = [self |-> self, fn |-> fn]
       /\ outcome' = Result_andThen(self, fn)
  /\ UNCHANGED <<tasks, cur, obs, steps, heap, frame>>

Call_Result_orElse ==
  /\ NotCalled
  /\ \E self \in Results, fn \in ResultBinders :
       /\ op' = "Result.orElse"
       /\ input' = [self |-> self, fn |-> fn]
       /\ outcome' = Result_orElse(self, fn)
  /\ UNCHANGED <<tasks, cur, obs, steps, heap, frame>>

Call_Result_ok ==
  /\ NotCalled
  /\ \E value \in Values :
       /\ op' = "Result.ok"
       /\ input' = [value |-> value]
       /\ outcome' = Result_ok(value)
  /\ UNCHANGED <<tasks, cur, obs, steps, heap, frame>>

Call_Result_err ==
  /\ NotCalled
  /\ \E error \in Values :
       /\ op' = "Result.err"
       /\ input' = [error |-> error]
       /\ outcome' = Result_err(error)
  /\ UNCHANGED <<tasks, cur, obs, steps, heap, frame>>

Call_Result_fromNullable ==
  /\ NotCalled
  /\ \E value \in Values, error \in Values :
       /\ op' = "Result.fromNullable"
       /\ input' = [value |-> value, error |-> error]
       /\ outcome' = Result_fromNullable(value, error)
  /\ UNCHANGED <<tasks, cur, obs, steps, heap, frame>>

Call_Result_try ==
  /\ NotCalled
  /\ \E fn \in Thunks :
       /\ op' = "Result.try"
       /\ input' = [fn |-> fn]
       /\ outcome' = Result_try(fn)
  /\ UNCHANGED <<tasks, cur, obs, steps, heap, frame>>

Call_Result_all ==
  /\ NotCalled
  /\ \E results \in ResultArrays :
       /\ op' = "Result.all"
       /\ input' = [results |-> results]
       /\ outcome' = Result_all(results)
  /\ UNCHANGED <<tasks, cur, obs, steps, heap, frame>>

Call_Result_any ==
  /\ NotCalled
  /\ \E results \in ResultArrays :
       /\ op' = "Result.any"
       /\ input' = [results |-> results]
       /\ outcome' = Result_any(results)
  /\ UNCHANGED <<tasks, cur, obs, steps, heap, frame>>

Call_Option_isSome ==
  /\ NotCalled
  /\ \E self \in Options :
       /\ op' = "Option.isSome"
       /\ input' = [self |-> self]
       /\ outcome' = Option_isSome(self)
  /\ UNCHANGED <<tasks, cur, obs, steps, heap, frame>>

Call_Option_isNone ==
  /\ NotCalled
  /\ \E self \in Options :
       /\ op' = "Option.isNone"
       /\ input' = [self |-> self]
       /\ outcome' = Option_isNone(self)
  /\ UNCHANGED <<tasks, cur, obs, steps, heap, frame>>

Call_Option_unwrap ==
  /\ NotCalled
  /\ \E self \in Options :
       /\ op' = "Option.unwrap"
       /\ input' = [self |-> self]
       /\ outcome' = Option_unwrap(self)
  /\ UNCHANGED <<tasks, cur, obs, steps, heap, frame>>

Call_Option_isSomeAnd ==
  /\ NotCalled
  /\ \E self \in Options, predicate \in Predicates :
       /\ op' = "Option.isSomeAnd"
       /\ input' = [self |-> self, fn |-> predicate]
       /\ outcome' = Option_isSomeAnd(self, predicate)
  /\ UNCHANGED <<tasks, cur, obs, steps, heap, frame>>

Call_Option_isNoneOr ==
  /\ NotCalled
  /\ \E self \in Options, predicate \in Predicates :
       /\ op' = "Option.isNoneOr"
       /\ input' = [self |-> self, fn |-> predicate]
       /\ outcome' = Option_isNoneOr(self, predicate)
  /\ UNCHANGED <<tasks, cur, obs, steps, heap, frame>>

Call_Option_filter ==
  /\ NotCalled
  /\ \E self \in Options, predicate \in Predicates :
       /\ op' = "Option.filter"
       /\ input' = [self |-> self, fn |-> predicate]
       /\ outcome' = Option_filter(self, predicate)
  /\ UNCHANGED <<tasks, cur, obs, steps, heap, frame>>

Call_Option_expect ==
  /\ NotCalled
  /\ \E self \in Options, message \in Messages :
       /\ op' = "Option.expect"
       /\ input' = [self |-> self, message |-> message]
       /\ outcome' = Option_expect(self, message)
  /\ UNCHANGED <<tasks, cur, obs, steps, heap, frame>>

Call_Option_unwrapOr ==
  /\ NotCalled
  /\ \E self \in Options, defaultValue \in Values :
       /\ op' = "Option.unwrapOr"
       /\ input' = [self |-> self, defaultValue |-> defaultValue]
       /\ outcome' = Option_unwrapOr(self, defaultValue)
  /\ UNCHANGED <<tasks, cur, obs, steps, heap, frame>>

Call_Option_unwrapOrElse ==
  /\ NotCalled
  /\ \E self \in Options, fn \in Thunks :
       /\ op' = "Option.unwrapOrElse"
       /\ input' = [self |-> self, fn |-> fn]
       /\ outcome' = Option_unwrapOrElse(self, fn)
  /\ UNCHANGED <<tasks, cur, obs, steps, heap, frame>>

Call_Option_toResultElse ==
  /\ NotCalled
  /\ \E self \in Options, fn \in Thunks :
       /\ op' = "Option.toResultElse"
       /\ input' = [self |-> self, fn |-> fn]
       /\ outcome' = Option_toResultElse(self, fn)
  /\ UNCHANGED <<tasks, cur, obs, steps, heap, frame>>

Call_Option_map ==
  /\ NotCalled
  /\ \E self \in Options, fn \in Mappers :
       /\ op' = "Option.map"
       /\ input' = [self |-> self, fn |-> fn]
       /\ outcome' = Option_map(self, fn)
  /\ UNCHANGED <<tasks, cur, obs, steps, heap, frame>>

Call_Option_mapOr ==
  /\ NotCalled
  /\ \E self \in Options, defaultValue \in CbValues, fn \in Mappers :
       /\ op' = "Option.mapOr"
       /\ input' = [self |-> self, defaultValue |-> defaultValue, fn |-> fn]
       /\ outcome' = Option_mapOr(self, defaultValue, fn)
  /\ UNCHANGED <<tasks, cur, obs, steps, heap, frame>>

Call_Option_mapOrElse ==
  /\ NotCalled
  /\ \E self \in Options, defaultFn \in Thunks, fn \in Mappers :
       /\ op' = "Option.mapOrElse"
       /\ input' = [self |-> self, defaultFn |-> defaultFn, fn |-> fn]
       /\ outcome' = Option_mapOrElse(self, defaultFn, fn)
  /\ UNCHANGED <<tasks, cur, obs, steps, heap, frame>>

Call_Option_and ==
  /\ NotCalled
  /\ \E self \in Options, other \in Options :
       /\ op' = "Option.and"
       /\ input' = [self |-> self, other |-> other]
       /\ outcome' = Option_and(self, other)
  /\ UNCHANGED <<tasks, cur, obs, steps, heap, frame>>

Call_Option_or ==
  /\ NotCalled
  /\ \E self \in Options, other \in Options :
       /\ op' = "Option.or"
       /\ input' = [self |-> self, other |-> other]
       /\ outcome' = Option_or(self, other)
  /\ UNCHANGED <<tasks, cur, obs, steps, heap, frame>>

Call_Option_xor ==
  /\ NotCalled
  /\ \E self \in Options, other \in Options :
       /\ op' = "Option.xor"
       /\ input' = [self |-> self, other |-> other]
       /\ outcome' = Option_xor(self, other)
  /\ UNCHANGED <<tasks, cur, obs, steps, heap, frame>>

Call_Option_zip ==
  /\ NotCalled
  /\ \E self \in Options, other \in Options :
       /\ op' = "Option.zip"
       /\ input' = [self |-> self, other |-> other]
       /\ outcome' = Option_zip(self, other)
  /\ UNCHANGED <<tasks, cur, obs, steps, heap, frame>>

Call_Option_andThen ==
  /\ NotCalled
  /\ \E self \in Options, fn \in OptionBinders :
       /\ op' = "Option.andThen"
       /\ input' = [self |-> self, fn |-> fn]
       /\ outcome' = Option_andThen(self, fn)
  /\ UNCHANGED <<tasks, cur, obs, steps, heap, frame>>

Call_Option_orElse ==
  /\ NotCalled
  /\ \E self \in Options, fn \in OptionBinders :
       /\ op' = "Option.orElse"
       /\ input' = [self |-> self, fn |-> fn]
       /\ outcome' = Option_orElse(self, fn)
  /\ UNCHANGED <<tasks, cur, obs, steps, heap, frame>>

Call_Option_zipWith ==
  /\ NotCalled
  /\ \E self \in Options, other \in Options, fn \in Mappers :
       /\ op' = "Option.zipWith"
       /\ input' = [self |-> self, other |-> other, fn |-> fn]
       /\ outcome' = Option_zipWith(self, other, fn)
  /\ UNCHANGED <<tasks, cur, obs, steps, heap, frame>>

Call_Option_unzip ==
  /\ NotCalled
  /\ \E self \in PairOptions :
       /\ op' = "Option.unzip"
       /\ input' = [self |-> self]
       /\ outcome' = Option_unzip(self)
  /\ UNCHANGED <<tasks, cur, obs, steps, heap, frame>>

Call_Option_toResult ==
  /\ NotCalled
  /\ \E self \in Options, error \in Values :
       /\ op' = "Option.toResult"
       /\ input' = [self |-> self, error |-> error]
       /\ outcome' = Option_toResult(self, error)
  /\ UNCHANGED <<tasks, cur, obs, steps, heap, frame>>

Call_Option_some ==
  /\ NotCalled
  /\ \E value \in Values :
       /\ op' = "Option.some"
       /\ input' = [value |-> value]
       /\ outcome' = Option_some(value)
  /\ UNCHANGED <<tasks, cur, obs, steps, heap, frame>>

Call_Option_none ==
  /\ NotCalled
  /\ op' = "Option.none"
  /\ input' = [none |-> TRUE]
  /\ outcome' = Option_none
  /\ UNCHANGED <<tasks, cur, obs, steps, heap, frame>>

Call_Option_fromNullable ==
  /\ NotCalled
  /\ \E value \in Values :
       /\ op' = "Option.fromNullable"
       /\ input' = [value |-> value]
       /\ outcome' = Option_fromNullable(value)
  /\ UNCHANGED <<tasks, cur, obs, steps, heap, frame>>

Call_Option_all ==
  /\ NotCalled
  /\ \E options \in OptionArrays :
       /\ op' = "Option.all"
       /\ input' = [options |-> options]
       /\ outcome' = Option_all(options)
  /\ UNCHANGED <<tasks, cur, obs, steps, heap, frame>>

Call_Option_any ==
  /\ NotCalled
  /\ \E options \in OptionArrays :
       /\ op' = "Option.any"
       /\ input' = [options |-> options]
       /\ outcome' = Option_any(options)
  /\ UNCHANGED <<tasks, cur, obs, steps, heap, frame>>

\* c.andThen(f).andThen(g)
Call_Result_andThen_andThen ==
  /\ NotCalled
  /\ \E self \in LawResults, f \in LawResultBinders, g \in LawResultBinders :
       /\ op' = "Result.andThen.andThen"
       /\ input' = [self |-> self, f |-> f, g |-> g]
       /\ outcome' = Then(Result_andThen(self, f),
                          LAMBDA r : Result_andThen(r, g))
  /\ UNCHANGED <<tasks, cur, obs, steps, heap, frame>>

\* c.andThen(x => f(x).andThen(g))
Call_Result_andThen_nested ==
  /\ NotCalled
  /\ \E self \in LawResults, f \in LawResultBinders, g \in LawResultBinders :
       /\ op' = "Result.andThen(andThen)"
       /\ input' = [self |-> self, f |-> f, g |-> g]
       /\ outcome' = Result_andThen(self, BindThen(f, g))
  /\ UNCHANGED <<tasks, cur, obs, steps, heap, frame>>

\* c.andThen(f).andThen(g)
Call_Option_andThen_andThen ==
  /\ NotCalled
  /\ \E self \in LawOptions, f \in LawOptionBinders, g \in LawOptionBinders :
       /\ op' = "Option.andThen.andThen"
       /\ input' = [self |-> self, f |-> f, g |-> g]
       /\ outcome' = Then(Option_andThen(self, f),
                          LAMBDA r : Option_andThen(r, g))
  /\ UNCHANGED <<tasks, cur, obs, steps, heap, frame>>

\* c.andThen(x => f(x).andThen(g))
Call_Option_andThen_nested ==
  /\ NotCalled
  /\ \E self \in LawOptions, f \in LawOptionBinders, g \in LawOptionBinders :
       /\ op' = "Option.andThen(andThen)"
       /\ input' = [self |-> self, f |-> f, g |-> g]
       /\ outcome' = Option_andThen(self, BindThen(f, g))
  /\ UNCHANGED <<tasks, cur, obs, steps, heap, frame>>

\* c.map(f).map(g)
Call_Result_map_map ==
  /\ NotCalled
  /\ \E self \in LawResults, f \in LawMappers, g \in LawMappers :
       /\ op' = "Result.map.map"
       /\ input' = [self |-> self, f |-> f, g |-> g]
       /\ outcome' = Then(Result_map(self, f), LAMBDA r : Result_map(r, g))
  /\ UNCHANGED <<tasks, cur, obs, steps, heap, frame>>

\* c.map(x => g(f(x)))
Call_Result_map_composed ==
  /\ NotCalled
  /\ \E self \in LawResults, f \in LawMappers, g \in LawMappers :
       /\ op' = "Result.map(compose)"
       /\ input' = [self |-> self, f |-> f, g |-> g]
       /\ outcome' = Result_map(self, Compose(f, g))
  /\ UNCHANGED <<tasks, cur, obs, steps, heap, frame>>

\* c.map(f).map(g)
Call_Option_map_map ==
  /\ NotCalled
  /\ \E self \in LawOptions, f \in LawMappers, g \in LawMappers :
       /\ op' = "Option.map.map"
       /\ input' = [self |-> self, f |-> f, g |-> g]
       /\ outcome' = Then(Option_map(self, f), LAMBDA r : Option_map(r, g))
  /\ UNCHANGED <<tasks, cur, obs, steps, heap, frame>>

\* c.map(x => g(f(x)))
Call_Option_map_composed ==
  /\ NotCalled
  /\ \E self \in LawOptions, f \in LawMappers, g \in LawMappers :
       /\ op' = "Option.map(compose)"
       /\ input' = [self |-> self, f |-> f, g |-> g]
       /\ outcome' = Option_map(self, Compose(f, g))
  /\ UNCHANGED <<tasks, cur, obs, steps, heap, frame>>

\* a.zip(b).unzip()
Call_Option_zip_unzip ==
  /\ NotCalled
  /\ \E self \in Options, other \in Options :
       /\ op' = "Option.zip.unzip"
       /\ input' = [self |-> self, other |-> other]
       /\ outcome' = Then(Option_zip(self, other), LAMBDA z : Option_unzip(z))
  /\ UNCHANGED <<tasks, cur, obs, steps, heap, frame>>

\* Result.ok(v).toOption().unwrap()
Call_Result_ok_toOption_unwrap ==
  /\ NotCalled
  /\ \E value \in Values :
       /\ op' = "Result.ok.toOption.unwrap"
       /\ input' = [value |-> value]
       /\ outcome' = Then(Result_ok(value),
                          LAMBDA r : Then(Result_toOption(r),
                                          LAMBDA o : Option_unwrap(o)))
  /\ UNCHANGED <<tasks, cur, obs, steps, heap, frame>>

\* o.toResult(e).toOption()
Call_Option_toResult_toOption ==
  /\ NotCalled
  /\ \E self \in Options, error \in Values :
       /\ op' = "Option.toResult.toOption"
       /\ input' = [self |-> self, error |-> error]
       /\ outcome' = Then(Option_toResult(self, error),
                          LAMBDA r : Result_toOption(r))
  /\ UNCHANGED <<tasks, cur, obs, steps, heap, frame>>

\* Result.all(rs).toOption()
Call_Result_all_toOption ==
  /\ NotCalled
  /\ \E results \in ResultArrays :
       /\ op' = "Result.all.toOption"
       /\ input' = [results |-> results]
       /\ outcome' = Then(Result_all(results), LAMBDA r : Result_toOption(r))
  /\ UNCHANGED <<tasks, cur, obs, steps, heap, frame>>

\* Option.all(rs.map(r => r.toOption()))
Call_Option_all_ToOptions ==
  /\ NotCalled
  /\ \E results \in ResultArrays :
       /\ op' = "Option.all(map toOption)"
       /\ input' = [results |-> results]
       /\ outcome' = Option_all(ToOptions(results))
  /\ UNCHANGED <<tasks, cur, obs, steps, heap, frame>>

\* Result.any(rs).toOption()
Call_Result_any_toOption ==
  /\ NotCalled
  /\ \E results \in ResultArrays :
       /\ op' = "Result.any.toOption"
       /\ input' = [results |-> results]
       /\ outcome' = Then(Result_any(results), LAMBDA r : Result_toOption(r))
  /\ UNCHANGED <<tasks, cur, obs, steps, heap, frame>>

\* Option.any(rs.map(r => r.toOption()))
Call_Option_any_ToOptions ==
  /\ NotCalled
  /\ \E results \in ResultArrays :
       /\ op' = "Option.any(map toOption)"
       /\ input' = [results |-> results]
       /\ outcome' = Option_any(ToOptions(results))
  /\ UNCHANGED <<tasks, cur, obs, steps, heap, frame>>

Next ==
  \/ Call_Result_isOk
  \/ Call_Result_isErr
  \/ Call_Result_unwrap
  \/ Call_Result_unwrapErr
  \/ Call_Result_toOption
  \/ Call_Result_errOption
  \/ Call_Result_isOkAnd
  \/ Call_Result_isErrAnd
  \/ Call_Result_expect
  \/ Call_Result_expectErr
  \/ Call_Result_unwrapOr
  \/ Call_Result_unwrapOrElse
  \/ Call_Result_map
  \/ Call_Result_mapErr
  \/ Call_Result_inspect
  \/ Call_Result_inspectErr
  \/ Call_Result_mapOr
  \/ Call_Result_mapOrElse
  \/ Call_Result_and
  \/ Call_Result_or
  \/ Call_Result_andThen
  \/ Call_Result_orElse
  \/ Call_Result_ok
  \/ Call_Result_err
  \/ Call_Result_fromNullable
  \/ Call_Result_try
  \/ Call_Result_all
  \/ Call_Result_any
  \/ Call_Option_isSome
  \/ Call_Option_isNone
  \/ Call_Option_unwrap
  \/ Call_Option_isSomeAnd
  \/ Call_Option_isNoneOr
  \/ Call_Option_filter
  \/ Call_Option_expect
  \/ Call_Option_unwrapOr
  \/ Call_Option_unwrapOrElse
  \/ Call_Option_toResultElse
  \/ Call_Option_map
  \/ Call_Option_mapOr
  \/ Call_Option_mapOrElse
  \/ Call_Option_and
  \/ Call_Option_or
  \/ Call_Option_xor
  \/ Call_Option_zip
  \/ Call_Option_andThen
  \/ Call_Option_orElse
  \/ Call_Option_zipWith
  \/ Call_Option_unzip
  \/ Call_Option_toResult
  \/ Call_Option_some
  \/ Call_Option_none
  \/ Call_Option_fromNullable
  \/ Call_Option_all
  \/ Call_Option_any
  \/ Call_Result_andThen_andThen
  \/ Call_Result_andThen_nested
  \/ Call_Option_andThen_andThen
  \/ Call_Option_andThen_nested
  \/ Call_Result_map_map
  \/ Call_Result_map_composed
  \/ Call_Option_map_map
  \/ Call_Option_map_composed
  \/ Call_Option_zip_unzip
  \/ Call_Result_ok_toOption_unwrap
  \/ Call_Option_toResult_toOption
  \/ Call_Result_all_toOption
  \/ Call_Option_all_ToOptions
  \/ Call_Result_any_toOption
  \/ Call_Option_any_ToOptions

Spec == Init /\ [][Next]_vars

(***************************************************************************)
(* Result.tryAsync.  Promises are pending, fulfilled with a value or       *)
(* rejected with a reason.  A call runs the async function up to its       *)
(* await: it invokes fn inside the try block; the promise the call returns *)
(* is p, the promise fn returned is q.  The function is resumed once q has *)
(* settled.                                                                *)
(***************************************************************************)
Pending == [state |-> "pending"]

Fulfilled(v) == [state |-> "fulfilled", value |-> v]

Rejected(x) == [state |-> "rejected", reason |-> x]

\* What fn's promise may be fulfilled with, and rejected with.
Reasons == CbValues \cup {UnwrapError("custom message")}

Settlements ==
  {Fulfilled(v) : v \in Values} \cup {Rejected(x) : x \in Reasons}

\* fn raises before it returns a promise, or returns a promise that is
\* pending or has settled already.
AsyncFns ==
  {Throws(x) : x \in Reasons} \cup {Const(q) : q \in {Pending} \cup Settlements}

\* Mutant of TryAsync_call: fn is invoked again when its first invocation did
\* not raise (a retry).
TryAsync_call_twice(fn) ==
  LET c == Invoke(fn, <<>>)
  IN  IF c.kind = "throw"
        THEN [pc |-> "done", fn |-> fn, calls |-> c.calls,
              completion |-> "return", q |-> [state |-> "none"],
              p |-> Fulfilled(Result_err(c.thrown).value)]
        ELSE [pc |-> "awaiting", fn |-> fn, calls |-> c.calls \o c.calls,
              completion |-> "return", q |-> c.value, p |-> Pending]

\* The call: const value = await fn() inside try, up to the suspension.
\* An async function reports a raise through its promise, so the call
\* itself completes by returning p.
TryAsync_call(fn) ==
  LET c == Invoke(fn, <<>>)
  IN  IF c.kind = "throw"
        THEN [pc |-> "done", fn |-> fn, calls |-> c.calls,
              completion |-> "return", q |-> [state |-> "none"],
              p |-> Fulfilled(Result_err(c.thrown).value)]
        ELSE [pc |-> "awaiting", fn |-> fn, calls |-> c.calls,
              completion |-> "return", q |-> c.value, p |-> Pending]

\* Mutant of TryAsync_resume: no catch clause, a rejection of q rejects p.
TryAsync_resume_nocatch(q) ==
  IF q.state = "fulfilled"
    THEN Fulfilled(Result_ok(q.value).value)
    ELSE Rejected(q.reason)

\* The function after the await: return Result.ok(value) when q fulfilled,
\* the catch clause when q rejected.
TryAsync_resume(q) ==
  IF q.state = "fulfilled"
    THEN Fulfilled(Result_ok(q.value).value)
    ELSE Fulfilled(Result_err(q.reason).value)

Call_Result_tryAsync(i) ==
  /\ tasks[i].pc = "idle"
  /\ \E fn \in AsyncFns : tasks' = [tasks EXCEPT ![i] = TryAsync_call(fn)]
  /\ UNCHANGED <<op, input, outcome, cur, obs, steps, heap, frame>>

\* fn's promise settles: the caller's asynchronous work ends.
FnSettle(i) ==
  /\ tasks[i].pc = "awaiting"
  /\ tasks[i].q.state = "pending"
  /\ \E s \in Settlements : tasks' = [tasks EXCEPT ![i].q = s]
  /\ UNCHANGED <<op, input, outcome, cur, obs, steps, heap, frame>>

\* A variant of the resumption that keeps the last Result in one place read
\* by every call that has finished.
Resume_shared(i) ==
  /\ tasks[i].pc = "awaiting"
  /\ tasks[i].q.state # "pending"
  /\ tasks' = [j \in 1..MaxAsync |->
                 IF j = i
                   THEN [tasks[i] EXCEPT !.pc = "done",
                                         !.p = TryAsync_resume(tasks[i].q)]
                   ELSE IF tasks[j].pc = "done"
                          THEN [tasks[j] EXCEPT
                                  !.p = TryAsync_resume(tasks[i].q)]
                          ELSE tasks[j]]
  /\ UNCHANGED <<op, input, outcome, cur, obs, steps, heap, frame>>

\* The job that resumes the async function after its await.
Resume(i) ==
  /\ tasks[i].pc = "awaiting"
  /\ tasks[i].q.state # "pending"
  /\ tasks' = [tasks EXCEPT ![i].pc = "done",
                            ![i].p = TryAsync_resume(tasks[i].q)]
  /\ UNCHANGED <<op, input, outcome, cur, obs, steps, heap, frame>>

NextAsync ==
  \E i \in 1..MaxAsync :
    \/ Call_Result_tryAsync(i)
    \/ FnSettle(i)
    \/ Resume(i)

SpecAsync == Init /\ [][NextAsync]_vars

(***************************************************************************)
(* Properties of the aggregations.                                         *)
(***************************************************************************)
\* The indices of the elements of the array a whose tag is t.
Tagged(a, t) == {i \in 1..Len(a) : a[i].tag = t}

\* The smallest member of the non-empty set S of indices.
Least(S) == CHOOSE i \in S : \A j \in S : i <= j

\* C1: Result.all yields the Err at the smallest index if the array holds an
\* Err (that element's error, not a later one, not an array), else Ok of the
\* array of all Ok values in input order and of the input's length; the
\* empty array gives Ok([]).
C1_ResultAll ==
  op = "Result.all" =>
    LET rs == input.results
        errs == Tagged(rs, "Err")
    IN  /\ outcome.kind = "return"
        /\ errs # {} =>
             /\ outcome.value.tag = "Err"
             /\ outcome.value.error = rs[Least(errs)].error
        /\ errs = {} =>
             /\ outcome.value.tag = "Ok"
             /\ outcome.value.value.ty = "array"
             /\ Len(outcome.value.value.items) = Len(rs)
             /\ \A i \in 1..Len(rs) :
                  outcome.value.value.items[i] = rs[i].value
        /\ rs = <<>> => outcome.value = Ok(Arr(<<>>))

\* Result.all met two Errs with different errors after an Ok and answered
\* the first.
C1_Witness ==
  /\ op = "Result.all"
  /\ Len(input.results) = 3
  /\ input.results[1].tag = "Ok"
  /\ input.results[2].tag = "Err"
  /\ input.results[3].tag = "Err"
  /\ input.results[2].error # input.results[3].error
  /\ outcome.kind = "return"
  /\ outcome.value = input.results[2]

\* C2: Result.any yields the Ok at the smallest index if the array holds an
\* Ok, else one Err holding the array of all errors in input order and of
\* the input's length; the empty array gives Err([]).
C2_ResultAny ==
  op = "Result.any" =>
    LET rs == input.results
        oks == Tagged(rs, "Ok")
    IN  /\ outcome.kind = "return"
        /\ oks # {} =>
             /\ outcome.value.tag = "Ok"
             /\ outcome.value.value = rs[Least(oks)].value
        /\ oks = {} =>
             /\ outcome.value.tag = "Err"
             /\ outcome.value.error.ty = "array"
             /\ Len(outcome.value.error.items) = Len(rs)
             /\ \A i \in 1..Len(rs) :
                  outcome.value.error.items[i] = rs[i].error
        /\ rs = <<>> => outcome.value = Err(Arr(<<>>))

\* Result.any met only Errs, two of them different, and answered the array
\* of their errors.
C2_Witness ==
  /\ op = "Result.any"
  /\ Len(input.results) >= 2
  /\ Tagged(input.results, "Ok") = {}
  /\ input.results[1].error # input.results[2].error
  /\ outcome.kind = "return"
  /\ outcome.value.tag = "Err"
  /\ Len(outcome.value.error.items) = Len(input.results)

\* C3: Option.all is Some of all values in input order iff every element is
\* Some (Some([]) for the empty array) and None otherwise; Option.any is the
\* first Some in input order if there is one and None iff every element is
\* None (None for the empty array).
C3_OptionAllAny ==
  /\ op = "Option.all" =>
       LET os == input.options
       IN  /\ outcome.kind = "return"
           /\ outcome.value.tag = "Some" <=> Tagged(os, "None") = {}
           /\ outcome.value.tag = "None" <=> Tagged(os, "None") # {}
           /\ Tagged(os, "None") = {} =>
                outcome.value = Some(Arr([i \in 1..Len(os) |-> os[i].value]))
           /\ os = <<>> => outcome.value = Some(Arr(<<>>))
  /\ op = "Option.any" =>
       LET os == input.options
           somes == Tagged(os, "Some")
       IN  /\ outcome.kind = "return"
           /\ outcome.value.tag = "None" <=> somes = {}
           /\ somes # {} => outcome.value = os[Least(somes)]
           /\ os = <<>> => outcome.value = None

\* Option.any met a None and then two different Somes and answered the
\* first Some.
C3_Witness ==
  /\ op = "Option.any"
  /\ Len(input.options) = 3
  /\ input.options[1].tag = "None"
  /\ input.options[2].tag = "Some"
  /\ input.options[3].tag = "Some"
  /\ input.options[2] # input.options[3]
  /\ outcome.value = input.options[2]

(***************************************************************************)
(* Properties of extraction and of raised signals.                         *)
(***************************************************************************)
\* The variant on which the unsafe extractor op raises.
WrongTag ==
  CASE op \in {"Result.unwrap", "Result.expect"} -> "Err"
    [] op \in {"Result.unwrapErr", "Result.expectErr"} -> "Ok"
    [] op \in {"Option.unwrap", "Option.expect"} -> "None"

UnsafeOps ==
  {"Result.unwrap", "Result.expect", "Result.unwrapErr", "Result.expectErr",
   "Option.unwrap", "Option.expect"}

\* The payload a container holds.
Held(c) == IF c.tag = "Err" THEN c.error ELSE c.value

\* C4: an unsafe extractor raises exactly on the wrong variant, returns the
\* held payload on the right one, and expect / expectErr raise an
\* UnwrapError whose message is the caller's message.
C4_UnsafeExtraction ==
  op \in UnsafeOps =>
    /\ input.self.tag = WrongTag <=> outcome.kind = "throw"
    /\ input.self.tag # WrongTag =>
         /\ outcome.kind = "return"
         /\ outcome.value = Held(input.self)
    /\ (op \in {"Result.expect", "Result.expectErr", "Option.expect"}
          /\ input.self.tag = WrongTag) =>
         /\ outcome.kind = "throw"
         /\ outcome.thrown.ty = "UnwrapError"
         /\ outcome.thrown.message = input.message

\* expect on an Err raised with the caller's non-empty message.
C4_Witness ==
  /\ op = "Result.expect"
  /\ input.self.tag = "Err"
  /\ input.message = "custom message"
  /\ outcome.kind = "throw"
  /\ outcome.thrown.message = "custom message"

\* C5: the signal an unsafe extractor raises on the wrong variant is an
\* UnwrapError, whatever payload the container holds.
C5_OnlyUnwrapError ==
  (op \in UnsafeOps /\ input.self.tag = WrongTag) =>
    /\ outcome.kind = "throw"
    /\ outcome.thrown.ty = "UnwrapError"

\* The caller-supplied functions among the inputs of the call.
Supplied == {input[f] : f \in DOMAIN input \cap {"fn", "defaultFn"}}

\* C6: every operation other than the unsafe extractors returns normally on
\* both variants and for all arguments, given callbacks that return
\* normally; the operations that call unwrap internally are among them.
C6_Total ==
  (/\ op # "none"
   /\ op \notin UnsafeOps
   /\ \A g \in Supplied : g.k # "throws") => outcome.kind = "return"

\* Option.zip, which calls unwrap internally, returned None although one
\* side was None.
C6_Witness ==
  /\ op = "Option.zip"
  /\ input.self.tag = "Some"
  /\ input.other.tag = "None"
  /\ outcome.kind = "return"
  /\ outcome.value = None

\* C7 as stated: unwrapOr and unwrapOrElse never raise, for any input, on
\* any variant; they return the held value on Ok / Some and the default
\* (the callback's result) on Err / None.
C7_NeverRaise ==
  op \in {"Result.unwrapOr", "Result.unwrapOrElse",
          "Option.unwrapOr", "Option.unwrapOrElse"} =>
    /\ outcome.kind = "return"
    /\ input.self.tag \in {"Ok", "Some"} => outcome.value = input.self.value
    /\ (input.self.tag \in {"Err", "None"}
          /\ op \in {"Result.unwrapOr", "Option.unwrapOr"}) =>
         outcome.value = input.defaultValue

\* What the function fn answers when it returns normally on args.
Answer(fn, args) == IF fn.k = "id" THEN args[1] ELSE fn.ret

\* C7 (amended): unwrapOr never raises, and unwrapOrElse never raises on
\* Ok / Some, nor on Err / None when fn returns normally: they return the
\* held value on Ok / Some and the default (the callback's result) on
\* Err / None; when fn raises on Err / None, unwrapOrElse raises that signal.
C7_SafeExtraction ==
  /\ op \in {"Result.unwrapOr", "Option.unwrapOr"} =>
       /\ outcome.kind = "return"
       /\ outcome.value = IF input.self.tag \in {"Ok", "Some"}
                            THEN input.self.value
                            ELSE input.defaultValue
  /\ op \in {"Result.unwrapOrElse", "Option.unwrapOrElse"} =>
       IF input.self.tag \in {"Ok", "Some"}
         THEN outcome.kind = "return" /\ outcome.value = input.self.value
         ELSE IF input.fn.k = "throws"
                THEN outcome.kind = "throw" /\ outcome.thrown = input.fn.x
                ELSE /\ outcome.kind = "return"
                     /\ outcome.value =
                          Answer(input.fn,
                                 IF input.self.tag = "Err"
                                   THEN <<input.self.error>> ELSE <<>>)

\* unwrapOrElse on an Err answered what fn made of the error.
C7_Witness ==
  /\ op = "Result.unwrapOrElse"
  /\ input.self.tag = "Err"
  /\ input.fn.k = "id"
  /\ outcome.kind = "return"
  /\ outcome.value = input.self.error

\* The operations that take a function fn, and the variant of the receiver
\* on which they invoke it.
FnTag ==
  [o \in {"Result.map", "Result.mapOr", "Result.mapOrElse", "Result.andThen",
          "Result.isOkAnd", "Result.inspect"} |-> "Ok"]
  @@ [o \in {"Result.mapErr", "Result.orElse", "Result.unwrapOrElse",
             "Result.isErrAnd", "Result.inspectErr"} |-> "Err"]
  @@ [o \in {"Option.map", "Option.mapOr", "Option.mapOrElse",
             "Option.andThen", "Option.isSomeAnd", "Option.isNoneOr",
             "Option.filter", "Option.zipWith"} |-> "Some"]
  @@ [o \in {"Option.orElse", "Option.unwrapOrElse",
             "Option.toResultElse"} |-> "None"]

\* C8: in every operation other than Result.try, a caller-supplied function
\* that raises x makes the operation raise x itself: the signal is not
\* caught and no container is returned.
C8_Propagation ==
  (op # "none" /\ op # "Result.try") =>
    /\ \A i \in 1..Len(outcome.calls) :
         outcome.calls[i].fn.k = "throws" =>
           /\ outcome.kind = "throw"
           /\ outcome.thrown = outcome.calls[i].fn.x
    /\ (/\ op \in DOMAIN FnTag
        /\ input.self.tag = FnTag[op]
        /\ op = "Option.zipWith" => input.other.tag = "Some"
        /\ input.fn.k = "throws") =>
         /\ outcome.kind = "throw"
         /\ outcome.thrown = input.fn.x
    /\ (/\ op \in {"Result.mapOrElse", "Option.mapOrElse"}
        /\ input.self.tag \in {"Err", "None"}
        /\ input.defaultFn.k = "throws") =>
         /\ outcome.kind = "throw"
         /\ outcome.thrown = input.defaultFn.x

\* map on an Ok invoked a function that raised, and raised the same signal.
C8_Witness ==
  /\ op = "Result.map"
  /\ input.self.tag = "Ok"
  /\ input.fn.k = "throws"
  /\ outcome.kind = "throw"
  /\ outcome.thrown = input.fn.x

\* C9: Result.try never raises and invokes fn exactly once; a returned v
\* gives Ok(v), falsy values included; a raised x gives Err holding x
\* itself.
C9_Try ==
  op = "Result.try" =>
    /\ outcome.kind = "return"
    /\ Len(outcome.calls) = 1
    /\ outcome.calls[1].fn = input.fn
    /\ input.fn.k = "const" => outcome.value = Ok(input.fn.ret)
    /\ input.fn.k = "throws" => outcome.value = Err(input.fn.x)

\* Result.try caught an error object and answered Err holding it.
C9_Witness ==
  /\ op = "Result.try"
  /\ input.fn = Throws(UnwrapError("custom message"))
  /\ outcome.kind = "return"
  /\ outcome.value.tag = "Err"
  /\ outcome.value.error.ty = "UnwrapError"

(***************************************************************************)
(* Properties of Result.tryAsync.                                          *)
(***************************************************************************)
\* C10: a tryAsync call never raises synchronously and its promise never
\* rejects; the promise fulfils with Ok(v) when fn's promise fulfilled with
\* v, with Err(x) when fn's promise rejected with x, and with Err(x) when fn
\* raised x before returning a promise.
C10_TryAsync ==
  \A i \in 1..MaxAsync :
    tasks[i].pc # "idle" =>
      LET t == tasks[i]
      IN  /\ t.completion = "return"
          /\ t.p.state # "rejected"
          /\ t.pc = "done" =>
               /\ t.p.state = "fulfilled"
               /\ t.fn.k = "throws" => t.p.value = Err(t.fn.x)
               /\ (t.fn.k # "throws" /\ t.q.state = "fulfilled") =>
                    t.p.value = Ok(t.q.value)
               /\ (t.fn.k # "throws" /\ t.q.state = "rejected") =>
                    t.p.value = Err(t.q.reason)

\* A call whose fn returned a pending promise that later rejected has
\* fulfilled with Err of the reason, and another call fulfilled with Ok of a
\* falsy value.
C10_Witness ==
  \E i, j \in 1..MaxAsync :
    /\ tasks[i].pc = "done"
    /\ tasks[i].fn = Const(Pending)
    /\ tasks[i].q.state = "rejected"
    /\ tasks[i].p = Fulfilled(Err(tasks[i].q.reason))
    /\ tasks[j].pc = "done"
    /\ tasks[j].p = Fulfilled(Ok(Undefined))

\* The job queue runs every job that is ready: a call whose awaited promise
\* has settled is resumed.  Nothing makes fn's promise settle.
SpecAsyncFair ==
  SpecAsync /\ \A i \in 1..MaxAsync : WF_vars(Resume(i))

\* fn's promise of task i has settled.
Settled(i) ==
  tasks[i].pc # "idle" /\ tasks[i].q.state \in {"fulfilled", "rejected"}

\* The promise of call i has fulfilled with its Result.
Produced(i) == tasks[i].pc = "done" /\ tasks[i].p.state = "fulfilled"

\* What holds of every call at every moment: fn was invoked exactly once,
\* the Result is produced only after fn's promise has settled (or fn raised
\* before returning one), and while fn's promise is pending so is the
\* promise of the call.
C11_Safe ==
  \A i \in 1..MaxAsync :
    tasks[i].pc # "idle" =>
      /\ Len(tasks[i].calls) = 1
      /\ tasks[i].calls[1].fn = tasks[i].fn
      /\ tasks[i].p.state # "pending" =>
           Settled(i) \/ tasks[i].fn.k = "throws"
      /\ tasks[i].q.state = "pending" =>
           tasks[i].p.state = "pending" /\ tasks[i].pc = "awaiting"
      /\ tasks[i].p.state = "pending" <=> tasks[i].pc = "awaiting"

\* C11: a tryAsync call invokes fn exactly once and does nothing else; its
\* Result is never produced before fn's promise has settled; once fn's
\* promise has settled the Result is eventually produced; while fn's promise
\* stays pending the promise of the call stays pending.
C11_Suspension ==
  /\ []C11_Safe
  /\ \A i \in 1..MaxAsync : Settled(i) ~> Produced(i)
  /\ [][\A i \in 1..MaxAsync :
          (tasks[i].pc = "awaiting" /\ tasks'[i].pc = "done") => Settled(i)]_vars

\* One call has produced its Result after its pending promise settled while
\* another call is still suspended on a pending promise.
C11_Witness ==
  \E i, j \in 1..MaxAsync :
    /\ tasks[i].pc = "done"
    /\ tasks[i].fn = Const(Pending)
    /\ tasks[i].q.state = "fulfilled"
    /\ tasks[i].p.state = "fulfilled"
    /\ Len(tasks[i].calls) = 1
    /\ tasks[j].pc = "awaiting"
    /\ tasks[j].q.state = "pending"
    /\ tasks[j].p.state = "pending"

(***************************************************************************)
(* Chains of calls.  A client makes a container with a factory, replaces   *)
(* it by the answer of a container-returning method any number of times    *)
(* (up to MaxSteps), and asks the container for its variant at any moment  *)
(* (up to MaxInspect times per container).                                 *)
(***************************************************************************)
IsResult(c) == c.tag \in {"Ok", "Err"}

IsOption(c) == c.tag \in {"Some", "None"}

\* Containers passed as the other argument along a chain.
ChainResults == {Ok(Lit("42")), Err(Lit("0"))}

ChainOptions == {Some(Lit("42")), None}

\* The container the client holds after the call that completed with out:
\* the answer, or the one it had when the call raised.
Answered(out) == IF out.kind = "return" THEN out.value ELSE cur

\* The answers recorded for container c: those of cur when c is cur itself
\* (a method that returns this), none for a new container.
ObsOf(c) == IF c = cur THEN obs ELSE <<>>

Make_Result_ok ==
  /\ cur.tag = "none"
  /\ \E value \in Values :
       /\ cur' = Result_ok(value).value
       /\ obs' = <<>>
  /\ UNCHANGED <<op, input, outcome, tasks, steps, heap, frame>>

Make_Result_err ==
  /\ cur.tag = "none"
  /\ \E error \in Values :
       /\ cur' = Result_err(error).value
       /\ obs' = <<>>
  /\ UNCHANGED <<op, input, outcome, tasks, steps, heap, frame>>

Make_Result_fromNullable ==
  /\ cur.tag = "none"
  /\ \E value \in Values, error \in CbValues :
       /\ cur' = Result_fromNullable(value, error).value
       /\ obs' = <<>>
  /\ UNCHANGED <<op, input, outcome, tasks, steps, heap, frame>>

Make_Result_try ==
  /\ cur.tag = "none"
  /\ \E fn \in Thunks :
       /\ cur' = Result_try(fn).value
       /\ obs' = <<>>
  /\ UNCHANGED <<op, input, outcome, tasks, steps, heap, frame>>

Make_Option_some ==
  /\ cur.tag = "none"
  /\ \E value \in Values :
       /\ cur' = Option_some(value).value
       /\ obs' = <<>>
  /\ UNCHANGED <<op, input, outcome, tasks, steps, heap, frame>>

Make_Option_none ==
  /\ cur.tag = "none"
  /\ cur' = Option_none.value
  /\ obs' = <<>>
  /\ UNCHANGED <<op, input, outcome, tasks, steps, heap, frame>>

Make_Option_fromNullable ==
  /\ cur.tag = "none"
  /\ \E value \in Values :
       /\ cur' = Option_fromNullable(value).value
       /\ obs' = <<>>
  /\ UNCHANGED <<op, input, outcome, tasks, steps, heap, frame>>

Chain_Result_map ==
  /\ IsResult(cur)
  /\ steps < MaxSteps
  /\ \E fn \in Mappers :
       /\ cur' = Answered(Result_map(cur, fn))
       /\ obs' = ObsOf(Answered(Result_map(cur, fn)))
  /\ steps' = steps + 1
  /\ UNCHANGED <<op, input, outcome, tasks, heap, frame>>

Chain_Result_mapErr ==
  /\ IsResult(cur)
  /\ steps < MaxSteps
  /\ \E fn \in Mappers :
       /\ cur' = Answered(Result_mapErr(cur, fn))
       /\ obs' = ObsOf(Answered(Result_mapErr(cur, fn)))
  /\ steps' = steps + 1
  /\ UNCHANGED <<op, input, outcome, tasks, heap, frame>>

Chain_Result_inspect ==
  /\ IsResult(cur)
  /\ steps < MaxSteps
  /\ \E fn \in Mappers :
       /\ cur' = Answered(Result_inspect(cur, fn))
       /\ obs' = ObsOf(Answered(Result_inspect(cur, fn)))
  /\ steps' = steps + 1
  /\ UNCHANGED <<op, input, outcome, tasks, heap, frame>>

Chain_Result_inspectErr ==
  /\ IsResult(cur)
  /\ steps < MaxSteps
  /\ \E fn \in Mappers :
       /\ cur' = Answered(Result_inspectErr(cur, fn))
       /\ obs' = ObsOf(Answered(Result_inspectErr(cur, fn)))
  /\ steps' = steps + 1
  /\ UNCHANGED <<op, input, outcome, tasks, heap, frame>>

Chain_Result_and ==
  /\ IsResult(cur)
  /\ steps < MaxSteps
  /\ \E other \in ChainResults :
       /\ cur' = Answered(Result_and(cur, other))
       /\ obs' = ObsOf(Answered(Result_and(cur, other)))
  /\ steps' = steps + 1
  /\ UNCHANGED <<op, input, outcome, tasks, heap, frame>>

Chain_Result_or ==
  /\ IsResult(cur)
  /\ steps < MaxSteps
  /\ \E other \in ChainResults :
       /\ cur' = Answered(Result_or(cur, other))
       /\ obs' = ObsOf(Answered(Result_or(cur, other)))
  /\ steps' = steps + 1
  /\ UNCHANGED <<op, input, outcome, tasks, heap, frame>>

Chain_Result_andThen ==
  /\ IsResult(cur)
  /\ steps < MaxSteps
  /\ \E fn \in ResultBinders :
       /\ cur' = Answered(Result_andThen(cur, fn))
       /\ obs' = ObsOf(Answered(Result_andThen(cur, fn)))
  /\ steps' = steps + 1
  /\ UNCHANGED <<op, input, outcome, tasks, heap, frame>>

Chain_Result_orElse ==
  /\ IsResult(cur)
  /\ steps < MaxSteps
  /\ \E fn \in ResultBinders :
       /\ cur' = Answered(Result_orElse(cur, fn))
       /\ obs' = ObsOf(Answered(Result_orElse(cur, fn)))
  /\ steps' = steps + 1
  /\ UNCHANGED <<op, input, outcome, tasks, heap, frame>>

Chain_Result_toOption ==
  /\ IsResult(cur)
  /\ steps < MaxSteps
  /\ cur' = Answered(Result_toOption(cur))
  /\ obs' = ObsOf(Answered(Result_toOption(cur)))
  /\ steps' = steps + 1
  /\ UNCHANGED <<op, input, outcome, tasks, heap, frame>>

Chain_Result_errOption ==
  /\ IsResult(cur)
  /\ steps < MaxSteps
  /\ cur' = Answered(Result_errOption(cur))
  /\ obs' = ObsOf(Answered(Result_errOption(cur)))
  /\ steps' = steps + 1
  /\ UNCHANGED <<op, input, outcome, tasks, heap, frame>>

Chain_Result_all ==
  /\ IsResult(cur)
  /\ steps < MaxSteps
  /\ \E other \in ChainResults :
       /\ cur' = Answered(Result_all(<<cur, other>>))
       /\ obs' = ObsOf(Answered(Result_all(<<cur, other>>)))
  /\ steps' = steps + 1
  /\ UNCHANGED <<op, input, outcome, tasks, heap, frame>>

Chain_Result_any ==
  /\ IsResult(cur)
  /\ steps < MaxSteps
  /\ \E other \in ChainResults :
       /\ cur' = Answered(Result_any(<<other, cur>>))
       /\ obs' = ObsOf(Answered(Result_any(<<other, cur>>)))
  /\ steps' = steps + 1
  /\ UNCHANGED <<op, input, outcome, tasks, heap, frame>>

Chain_Option_map ==
  /\ IsOption(cur)
  /\ steps < MaxSteps
  /\ \E fn \in Mappers :
       /\ cur' = Answered(Option_map(cur, fn))
       /\ obs' = ObsOf(Answered(Option_map(cur, fn)))
  /\ steps' = steps + 1
  /\ UNCHANGED <<op, input, outcome, tasks, heap, frame>>

Chain_Option_and ==
  /\ IsOption(cur)
  /\ steps < MaxSteps
  /\ \E other \in ChainOptions :
       /\ cur' = Answered(Option_and(cur, other))
       /\ obs' = ObsOf(Answered(Option_and(cur, other)))
  /\ steps' = steps + 1
  /\ UNCHANGED <<op, input, outcome, tasks, heap, frame>>

Chain_Option_or ==
  /\ IsOption(cur)
  /\ steps < MaxSteps
  /\ \E other \in ChainOptions :
       /\ cur' = Answered(Option_or(cur, other))
       /\ obs' = ObsOf(Answered(Option_or(cur, other)))
  /\ steps' = steps + 1
  /\ UNCHANGED <<op, input, outcome, tasks, heap, frame>>

Chain_Option_xor ==
  /\ IsOption(cur)
  /\ steps < MaxSteps
  /\ \E other \in ChainOptions :
       /\ cur' = Answered(Option_xor(cur, other))
       /\ obs' = ObsOf(Answered(Option_xor(cur, other)))
  /\ steps' = steps + 1
  /\ UNCHANGED <<op, input, outcome, tasks, heap, frame>>

Chain_Option_zip ==
  /\ IsOption(cur)
  /\ steps < MaxSteps
  /\ \E other \in ChainOptions :
       /\ cur' = Answered(Option_zip(cur, other))
       /\ obs' = ObsOf(Answered(Option_zip(cur, other)))
  /\ steps' = steps + 1
  /\ UNCHANGED <<op, input, outcome, tasks, heap, frame>>

Chain_Option_zipWith ==
  /\ IsOption(cur)
  /\ steps < MaxSteps
  /\ \E other \in ChainOptions, fn \in Mappers :
       /\ cur' = Answered(Option_zipWith(cur, other, fn))
       /\ obs' = ObsOf(Answered(Option_zipWith(cur, other, fn)))
  /\ steps' = steps + 1
  /\ UNCHANGED <<op, input, outcome, tasks, heap, frame>>

Chain_Option_andThen ==
  /\ IsOption(cur)
  /\ steps < MaxSteps
  /\ \E fn \in OptionBinders :
       /\ cur' = Answered(Option_andThen(cur, fn))
       /\ obs' = ObsOf(Answered(Option_andThen(cur, fn)))
  /\ steps' = steps + 1
  /\ UNCHANGED <<op, input, outcome, tasks, heap, frame>>

Chain_Option_orElse ==
  /\ IsOption(cur)
  /\ steps < MaxSteps
  /\ \E fn \in OptionBinders :
       /\ cur' = Answered(Option_orElse(cur, fn))
       /\ obs' = ObsOf(Answered(Option_orElse(cur, fn)))
  /\ steps' = steps + 1
  /\ UNCHANGED <<op, input, outcome, tasks, heap, frame>>

Chain_Option_filter ==
  /\ IsOption(cur)
  /\ steps < MaxSteps
  /\ \E predicate \in Predicates :
       /\ cur' = Answered(Option_filter(cur, predicate))
       /\ obs' = ObsOf(Answered(Option_filter(cur, predicate)))
  /\ steps' = steps + 1
  /\ UNCHANGED <<op, input, outcome, tasks, heap, frame>>

Chain_Option_toResult ==
  /\ IsOption(cur)
  /\ steps < MaxSteps
  /\ \E error \in CbValues :
       /\ cur' = Answered(Option_toResult(cur, error))
       /\ obs' = ObsOf(Answered(Option_toResult(cur, error)))
  /\ steps' = steps + 1
  /\ UNCHANGED <<op, input, outcome, tasks, heap, frame>>

Chain_Option_toResultElse ==
  /\ IsOption(cur)
  /\ steps < MaxSteps
  /\ \E fn \in Thunks :
       /\ cur' = Answered(Option_toResultElse(cur, fn))
       /\ obs' = ObsOf(Answered(Option_toResultElse(cur, fn)))
  /\ steps' = steps + 1
  /\ UNCHANGED <<op, input, outcome, tasks, heap, frame>>

Chain_Option_all ==
  /\ IsOption(cur)
  /\ steps < MaxSteps
  /\ \E other \in ChainOptions :
       /\ cur' = Answered(Option_all(<<cur, other>>))
       /\ obs' = ObsOf(Answered(Option_all(<<cur, other>>)))
  /\ steps' = steps + 1
  /\ UNCHANGED <<op, input, outcome, tasks, heap, frame>>

Chain_Option_any ==
  /\ IsOption(cur)
  /\ steps < MaxSteps
  /\ \E other \in ChainOptions :
       /\ cur' = Answered(Option_any(<<other, cur>>))
       /\ obs' = ObsOf(Answered(Option_any(<<other, cur>>)))
  /\ steps' = steps + 1
  /\ UNCHANGED <<op, input, outcome, tasks, heap, frame>>

\* The client reads the tag and calls isOk() and isErr() on its Result.
Inspect_Result ==
  /\ IsResult(cur)
  /\ Len(obs) < MaxInspect
  /\ obs' = Append(obs, [tag |-> cur.tag,
                         yes |-> Result_isOk(cur).value,
                         no |-> Result_isErr(cur).value])
  /\ UNCHANGED <<op, input, outcome, tasks, cur, steps, heap, frame>>

\* The client reads the tag and calls isSome() and isNone() on its Option.
Inspect_Option ==
  /\ IsOption(cur)
  /\ Len(obs) < MaxInspect
  /\ obs' = Append(obs, [tag |-> cur.tag,
                         yes |-> Option_isSome(cur).value,
                         no |-> Option_isNone(cur).value])
  /\ UNCHANGED <<op, input, outcome, tasks, cur, steps, heap, frame>>

NextChain ==
  \/ Make_Result_ok
  \/ Make_Result_err
  \/ Make_Result_fromNullable
  \/ Make_Result_try
  \/ Make_Option_some
  \/ Make_Option_none
  \/ Make_Option_fromNullable
  \/ Chain_Result_map
  \/ Chain_Result_mapErr
  \/ Chain_Result_inspect
  \/ Chain_Result_inspectErr
  \/ Chain_Result_and
  \/ Chain_Result_or
  \/ Chain_Result_andThen
  \/ Chain_Result_orElse
  \/ Chain_Result_toOption
  \/ Chain_Result_errOption
  \/ Chain_Result_all
  \/ Chain_Result_any
  \/ Chain_Option_map
  \/ Chain_Option_and
  \/ Chain_Option_or
  \/ Chain_Option_xor
  \/ Chain_Option_zip
  \/ Chain_Option_zipWith
  \/ Chain_Option_andThen
  \/ Chain_Option_orElse
  \/ Chain_Option_filter
  \/ Chain_Option_toResult
  \/ Chain_Option_toResultElse
  \/ Chain_Option_all
  \/ Chain_Option_any
  \/ Inspect_Result
  \/ Inspect_Option

SpecChain == Init /\ [][NextChain]_vars

(***************************************************************************)
(* Properties of chains of calls.                                          *)
(***************************************************************************)
\* C12: for every container made by a factory or by a sequence of
\* operations, exactly one of isOk() / isErr() (isSome() / isNone()) is
\* true, it agrees with the tag field, and every repeated call on the same
\* container gives the same answer.
C12_Exclusivity ==
  /\ \A k \in 1..Len(obs) :
       /\ obs[k].yes # obs[k].no
       /\ obs[k].yes <=> obs[k].tag \in {"Ok", "Some"}
       /\ obs[k].no <=> obs[k].tag \in {"Err", "None"}
       /\ obs[k].tag = cur.tag
  /\ \A k, l \in 1..Len(obs) : obs[k] = obs[l]

\* An Err that two operations produced was asked twice.
C12_Witness ==
  /\ steps >= 2
  /\ cur.tag = "Err"
  /\ Len(obs) >= 2
  /\ obs[1] = obs[2]
  /\ obs[1].no

(***************************************************************************)
(* Properties of combination and transformation (single calls).            *)
(***************************************************************************)
\* The call invoked fn exactly once, on args, and nothing else.
InvokedOnce(fn, args) == outcome.calls = <<[fn |-> fn, args |-> args]>>

\* The call invoked no function.
InvokedNone == outcome.calls = <<>>

\* C13: on Ok(v), and(other) yields other, or(other) yields self,
\* andThen(fn) yields fn(v) (which may be Err) and orElse(fn) yields self
\* without invoking fn; on Err(e), and(other) yields self, or(other) yields
\* other, andThen(fn) yields self without invoking fn and orElse(fn) yields
\* fn(e).
C13_Combination ==
  /\ op = "Result.and" =>
       /\ outcome.kind = "return"
       /\ outcome.value =
            IF input.self.tag = "Ok" THEN input.other ELSE input.self
  /\ op = "Result.or" =>
       /\ outcome.kind = "return"
       /\ outcome.value =
            IF input.self.tag = "Ok" THEN input.self ELSE input.other
  /\ op = "Result.andThen" =>
       IF input.self.tag = "Ok"
         THEN /\ InvokedOnce(input.fn, <<input.self.value>>)
              /\ input.fn.k = "bind" =>
                   outcome.kind = "return" /\ outcome.value = input.fn.to
         ELSE /\ InvokedNone
              /\ outcome.kind = "return"
              /\ outcome.value = input.self
  /\ op = "Result.orElse" =>
       IF input.self.tag = "Err"
         THEN /\ InvokedOnce(input.fn, <<input.self.error>>)
              /\ input.fn.k = "bind" =>
                   outcome.kind = "return" /\ outcome.value = input.fn.to
         ELSE /\ InvokedNone
              /\ outcome.kind = "return"
              /\ outcome.value = input.self

\* or on an Err with another Err answered the second Err.
C13_Witness ==
  /\ op = "Result.or"
  /\ input.self.tag = "Err"
  /\ input.other.tag = "Err"
  /\ input.other # input.self
  /\ outcome.value = input.other

\* C14: map on Ok(v) yields Ok(fn(v)) and on Err(e) an Err still holding e
\* without invoking fn; mapErr on Err(e) yields Err(fn(e)) and on Ok(v) an
\* Ok still holding v without invoking fn; Option.map on Some(v) yields
\* Some(fn(v)) and on None yields None without invoking fn.
C14_Map ==
  /\ op = "Result.map" =>
       IF input.self.tag = "Ok"
         THEN /\ InvokedOnce(input.fn, <<input.self.value>>)
              /\ input.fn.k # "throws" =>
                   /\ outcome.kind = "return"
                   /\ outcome.value =
                        Ok(Answer(input.fn, <<input.self.value>>))
         ELSE /\ InvokedNone
              /\ outcome.kind = "return"
              /\ outcome.value = Err(input.self.error)
  /\ op = "Result.mapErr" =>
       IF input.self.tag = "Err"
         THEN /\ InvokedOnce(input.fn, <<input.self.error>>)
              /\ input.fn.k # "throws" =>
                   /\ outcome.kind = "return"
                   /\ outcome.value =
                        Err(Answer(input.fn, <<input.self.error>>))
         ELSE /\ InvokedNone
              /\ outcome.kind = "return"
              /\ outcome.value = Ok(input.self.value)
  /\ op = "Option.map" =>
       IF input.self.tag = "Some"
         THEN /\ InvokedOnce(input.fn, <<input.self.value>>)
              /\ input.fn.k # "throws" =>
                   /\ outcome.kind = "return"
                   /\ outcome.value =
                        Some(Answer(input.fn, <<input.self.value>>))
         ELSE /\ InvokedNone
              /\ outcome.kind = "return"
              /\ outcome.value = None

\* mapErr on an Err answered an Err holding what fn made of the error.
C14_Witness ==
  /\ op = "Result.mapErr"
  /\ input.self.tag = "Err"
  /\ input.fn.k = "const"
  /\ input.fn.ret # input.self.error
  /\ outcome.value = Err(input.fn.ret)

(***************************************************************************)
(* C15, C16: the laws of andThen and map, over functions given by tables.  *)
(***************************************************************************)
\* The invocations of the functions f and g in a call log: the entries of
\* the functions built from them are left out.
ByTables(log) == SelectSeq(log, LAMBDA c : c.fn.k = "table")

\* Same variant, same payload.
SameContainer(a, b) ==
  /\ a.kind = "return"
  /\ b.kind = "return"
  /\ a.value = b.value

SameInvocations(a, b) == ByTables(a.calls) = ByTables(b.calls)

\* C15: c.andThen(f).andThen(g) and c.andThen(x => f(x).andThen(g)) give a
\* container of the same variant and payload, and invoke f and g the same
\* number of times with the same arguments, on Result and on Option.
C15_AndThenAssociative ==
  LET self == input.self
      f == input.f
      g == input.g
  IN /\ op = "Result.andThen.andThen" =>
          LET nested == Result_andThen(self, BindThen(f, g))
          IN SameContainer(outcome, nested) /\ SameInvocations(outcome, nested)
     /\ op = "Result.andThen(andThen)" =>
          LET chained == Then(Result_andThen(self, f),
                              LAMBDA r : Result_andThen(r, g))
          IN SameContainer(outcome, chained)
               /\ SameInvocations(outcome, chained)
     /\ op = "Option.andThen.andThen" =>
          LET nested == Option_andThen(self, BindThen(f, g))
          IN SameContainer(outcome, nested) /\ SameInvocations(outcome, nested)
     /\ op = "Option.andThen(andThen)" =>
          LET chained == Then(Option_andThen(self, f),
                              LAMBDA r : Option_andThen(r, g))
          IN SameContainer(outcome, chained)
               /\ SameInvocations(outcome, chained)

\* The chained form on an Ok whose f gives an Ok and whose g gives an Err of
\* another value: both functions ran, g on what f returned.
C15_Witness ==
  /\ op = "Result.andThen.andThen"
  /\ input.self.tag = "Ok"
  /\ input.f.of[input.self.value].tag = "Ok"
  /\ input.f.of[input.self.value].value # input.self.value
  /\ outcome.value.tag = "Err"
  /\ outcome.calls =
       <<[fn |-> input.f, args |-> <<input.self.value>>],
         [fn |-> input.g, args |-> <<input.f.of[input.self.value].value>>]>>

\* C16: c.map(x => x) has the variant and payload of c; c.map(f).map(g) has
\* the variant and payload of c.map(x => g(f(x))); on Err or None both sides
\* of both laws are c.
C16_MapLaws ==
  LET self == input.self
  IN /\ (op \in {"Result.map", "Option.map"} /\ input.fn = Id) =>
          outcome.kind = "return" /\ outcome.value = self
     /\ op = "Result.map.map" =>
          /\ SameContainer(outcome, Result_map(self, Compose(input.f, input.g)))
          /\ self.tag = "Err" => outcome.value = self
     /\ op = "Result.map(compose)" =>
          /\ SameContainer(outcome,
                           Then(Result_map(self, input.f),
                                LAMBDA r : Result_map(r, input.g)))
          /\ self.tag = "Err" => outcome.value = self
     /\ op = "Option.map.map" =>
          /\ SameContainer(outcome, Option_map(self, Compose(input.f, input.g)))
          /\ self.tag = "None" => outcome.value = self
     /\ op = "Option.map(compose)" =>
          /\ SameContainer(outcome,
                           Then(Option_map(self, input.f),
                                LAMBDA r : Option_map(r, input.g)))
          /\ self.tag = "None" => outcome.value = self
     /\ (op \in {"Result.map", "Option.map"}
           /\ self.tag \in {"Err", "None"}) =>
          outcome.kind = "return" /\ outcome.value = self

\* The chained form on a Some whose f and g both change the value.
C16_Witness ==
  /\ op = "Option.map.map"
  /\ input.self.tag = "Some"
  /\ input.f.of[input.self.value] # input.self.value
  /\ outcome.value = Some(input.g.of[input.f.of[input.self.value]])
  /\ outcome.value # Some(input.f.of[input.self.value])
(***************************************************************************)
(* C17, C18: how often the callbacks of the lazy defaults and of the       *)
(* predicate tests are invoked, and what the tests answer.                 *)
(***************************************************************************)
\* C17: mapOrElse, unwrapOrElse and toResultElse invoke the callback of the
\* branch taken exactly once and the other callback not at all; mapOrElse
\* invokes exactly one of defaultFn and fn.
C17_ExactlyOnce ==
  LET self == input.self
  IN /\ op = "Result.mapOrElse" =>
          IF self.tag = "Ok" THEN InvokedOnce(input.fn, <<self.value>>)
          ELSE InvokedOnce(input.defaultFn, <<self.error>>)
     /\ op = "Option.mapOrElse" =>
          IF self.tag = "Some" THEN InvokedOnce(input.fn, <<self.value>>)
          ELSE InvokedOnce(input.defaultFn, <<>>)
     /\ op = "Result.unwrapOrElse" =>
          IF self.tag = "Ok" THEN InvokedNone
          ELSE InvokedOnce(input.fn, <<self.error>>)
     /\ op = "Option.unwrapOrElse" =>
          IF self.tag = "Some" THEN InvokedNone
          ELSE InvokedOnce(input.fn, <<>>)
     /\ op = "Option.toResultElse" =>
          IF self.tag = "Some" THEN InvokedNone
          ELSE InvokedOnce(input.fn, <<>>)

\* mapOrElse on an Err with two different callbacks ran defaultFn alone.
C17_Witness ==
  /\ op = "Result.mapOrElse"
  /\ input.self.tag = "Err"
  /\ input.defaultFn # input.fn
  /\ input.fn.k = "throws"
  /\ outcome.kind = "return"
  /\ Len(outcome.calls) = 1
  /\ outcome.calls[1].fn = input.defaultFn

\* What a predicate test answers when the predicate returns normally.
Holds(expected) ==
  input.fn.k = "pred" => outcome.kind = "return" /\ outcome.value = expected

\* C18: isOkAnd(p) is true iff Ok and p holds on the value, isErrAnd(p) iff
\* Err and p holds on the error, isSomeAnd(p) iff Some and p holds, isNoneOr(p)
\* iff None or p holds on the value; p is invoked exactly once on the
\* matching variant and never on the other.
C18_PredicateInspection ==
  LET self == input.self
  IN /\ op = "Result.isOkAnd" =>
          IF self.tag = "Ok"
            THEN InvokedOnce(input.fn, <<self.value>>) /\ Holds(input.fn.holds)
            ELSE InvokedNone /\ outcome = Return(FALSE)
     /\ op = "Result.isErrAnd" =>
          IF self.tag = "Err"
            THEN InvokedOnce(input.fn, <<self.error>>) /\ Holds(input.fn.holds)
            ELSE InvokedNone /\ outcome = Return(FALSE)
     /\ op = "Option.isSomeAnd" =>
          IF self.tag = "Some"
            THEN InvokedOnce(input.fn, <<self.value>>) /\ Holds(input.fn.holds)
            ELSE InvokedNone /\ outcome = Return(FALSE)
     /\ op = "Option.isNoneOr" =>
          IF self.tag = "Some"
            THEN InvokedOnce(input.fn, <<self.value>>) /\ Holds(input.fn.holds)
            ELSE InvokedNone /\ outcome = Return(TRUE)

\* isNoneOr on a Some whose predicate fails answered false after one
\* invocation.
C18_Witness ==
  /\ op = "Option.isNoneOr"
  /\ input.self.tag = "Some"
  /\ input.fn = Pred(FALSE)
  /\ outcome.value = FALSE
  /\ Len(outcome.calls) = 1

(***************************************************************************)
(* C19, C20: xor and the pairing operations of Option.                     *)
(***************************************************************************)
\* C19: a.xor(b) is the one of a and b that is Some when exactly one is, and
\* None when both or neither are; b.xor(a) has the same variant and payload.
C19_Xor ==
  op = "Option.xor" =>
    LET a == input.self
        b == input.other
        swapped == Option_xor(b, a)
    IN /\ outcome.kind = "return"
       /\ outcome.value.tag = "Some" <=> (a.tag = "Some") # (b.tag = "Some")
       /\ (a.tag = "Some" /\ b.tag = "None") => outcome.value = a
       /\ (a.tag = "None" /\ b.tag = "Some") => outcome.value = b
       /\ a.tag = b.tag => outcome.value = None
       /\ swapped.kind = "return"
       /\ swapped.value = outcome.value

\* xor of two Some holding different values answered None.
C19_Witness ==
  /\ op = "Option.xor"
  /\ input.self.tag = "Some"
  /\ input.other.tag = "Some"
  /\ input.self # input.other
  /\ outcome.value = None

\* zip, zipWith and unzip taken one call at a time.
C20_Calls ==
  LET a == input.self
      b == input.other
      both == a.tag = "Some" /\ b.tag = "Some"
  IN /\ op = "Option.zip" =>
          outcome =
            Return(IF both THEN Some(Arr(<<a.value, b.value>>)) ELSE None)
     /\ op = "Option.zipWith" =>
          IF both
            THEN /\ InvokedOnce(input.fn, <<a.value, b.value>>)
                 /\ input.fn.k # "throws" =>
                      /\ outcome.kind = "return"
                      /\ outcome.value =
                           Some(Answer(input.fn, <<a.value, b.value>>))
            ELSE outcome = Return(None)
     /\ op = "Option.unzip" =>
          outcome =
            Return(IF a.tag = "Some"
                     THEN <<Some(a.value.items[1]), Some(a.value.items[2])>>
                     ELSE <<None, None>>)

\* C20 as stated: zip is Some([x, y]) iff both are Some and None otherwise,
\* zipWith is Some(fn(x, y)) under the same condition and None otherwise
\* without invoking fn, unzip splits Some([x, y]) into [Some(x), Some(y)] and
\* None into [None, None], and a.zip(b).unzip() is [a, b] exactly when both
\* are Some.
C20_PairingExactlyBothSome ==
  /\ C20_Calls
  /\ op = "Option.zip.unzip" =>
       /\ outcome.kind = "return"
       /\ outcome.value = <<input.self, input.other>>
            <=> (input.self.tag = "Some" /\ input.other.tag = "Some")

\* C20 amended: as above, but a.zip(b).unzip() is [a, b] exactly when a and b
\* are both Some or both None; when only one is Some it is [None, None], which
\* differs from [a, b].
C20_Pairing ==
  /\ C20_Calls
  /\ op = "Option.zip.unzip" =>
       /\ outcome.kind = "return"
       /\ outcome.value = <<input.self, input.other>>
            <=> input.self.tag = input.other.tag
       /\ input.self.tag # input.other.tag => outcome.value = <<None, None>>

\* zip then unzip of two None gave back the two None: the round trip
\* returned its inputs although neither is Some.
C20_Witness ==
  /\ op = "Option.zip.unzip"
  /\ input.self = None
  /\ input.other = None
  /\ outcome.value = <<input.self, input.other>>

(***************************************************************************)
(* C21 .. C25: filter, the conversions between the two containers, the     *)
(* nullness test of fromNullable, and inspect.                             *)
(***************************************************************************)
\* C21: filter(p) on Some(v) is the same Some(v) when p(v) holds and None
\* otherwise; on None it is None and p is not invoked; so filter never turns
\* None into Some and never changes a held value.
C21_Filter ==
  op = "Option.filter" =>
    LET self == input.self
    IN /\ IF self.tag = "Some"
            THEN /\ InvokedOnce(input.fn, <<self.value>>)
                 /\ input.fn.k = "pred" =>
                      outcome =
                        After(outcome.calls,
                              Return(IF input.fn.holds THEN self ELSE None))
            ELSE InvokedNone /\ outcome = Return(None)
       /\ outcome.kind = "return" => outcome.value \in {self, None}

\* filter on a Some whose predicate fails answered None.
C21_Witness ==
  /\ op = "Option.filter"
  /\ input.self.tag = "Some"
  /\ input.fn = Pred(FALSE)
  /\ outcome.value = None
  /\ Len(outcome.calls) = 1

\* C22: toOption maps Ok(v) to Some(v) and every Err to None; err maps Err(e)
\* to Some(e) and every Ok to None; exactly one of the two is Some for each
\* Result; Result.ok(v).toOption().unwrap() is v; the None that toOption
\* gives for an Err holds nothing of the error.
C22_Conversions ==
  /\ op = "Result.toOption" =>
       /\ outcome =
            Return(IF input.self.tag = "Ok" THEN Some(input.self.value)
                   ELSE None)
       /\ (outcome.value.tag = "Some")
            # (Result_errOption(input.self).value.tag = "Some")
       /\ input.self.tag = "Err" => outcome.value = [tag |-> "None"]
  /\ op = "Result.err()" =>
       /\ outcome =
            Return(IF input.self.tag = "Err" THEN Some(input.self.error)
                   ELSE None)
       /\ (outcome.value.tag = "Some")
            # (Result_toOption(input.self).value.tag = "Some")
  /\ op = "Result.ok.toOption.unwrap" => outcome = Return(input.value)

\* toOption on an Err holding something other than undefined answered None.
C22_Witness ==
  /\ op = "Result.toOption"
  /\ input.self.tag = "Err"
  /\ input.self.error # Undefined
  /\ outcome.value = None

\* C23: toResult(error) maps Some(v) to Ok(v) and None to Err(error);
\* toResultElse(fn) maps Some(v) to Ok(v) and None to Err(fn());
\* o.toResult(e).toOption() has the variant and value of o.
C23_ToResult ==
  /\ op = "Option.toResult" =>
       outcome =
         Return(IF input.self.tag = "Some" THEN Ok(input.self.value)
                ELSE Err(input.error))
  /\ op = "Option.toResultElse" =>
       IF input.self.tag = "Some"
         THEN outcome = Return(Ok(input.self.value))
         ELSE input.fn.k = "const" =>
                /\ outcome.kind = "return"
                /\ outcome.value = Err(input.fn.ret)
  /\ op = "Option.toResult.toOption" => outcome = Return(input.self)

\* The round trip of a Some through toResult with an error other than its
\* value gave the Some back.
C23_Witness ==
  /\ op = "Option.toResult.toOption"
  /\ input.self.tag = "Some"
  /\ input.error # input.self.value
  /\ outcome.value = input.self

\* The values that are null or undefined.
Nullish == {Lit("null"), Lit("undefined")}

\* C24: Result.fromNullable(value, error) is Err(error) iff value is null or
\* undefined and Ok(value) otherwise; Option.fromNullable(value) is None iff
\* value is null or undefined and Some(value) otherwise; 0, '' and false give
\* Ok / Some; ok, err and some hold null and undefined as payloads.
C24_Nullness ==
  /\ op = "Result.fromNullable" =>
       outcome =
         Return(IF input.value \in Nullish THEN Err(input.error)
                ELSE Ok(input.value))
  /\ op = "Option.fromNullable" =>
       outcome =
         Return(IF input.value \in Nullish THEN None ELSE Some(input.value))
  /\ op = "Result.ok" => outcome = Return(Ok(input.value))
  /\ op = "Result.err" => outcome = Return(Err(input.error))
  /\ op = "Option.some" => outcome = Return(Some(input.value))

\* fromNullable of the empty string with a null error answered an Ok holding
\* the empty string.
C24_Witness ==
  /\ op = "Result.fromNullable"
  /\ input.value = Lit("''")
  /\ input.error = Lit("null")
  /\ outcome.value = Ok(Lit("''"))

\* C25: inspect(fn) invokes fn once with the value iff the Result is Ok,
\* inspectErr(fn) invokes fn once with the error iff it is Err, and the call
\* returns the same container, variant and payload unchanged.
C25_Inspect ==
  /\ op = "Result.inspect" =>
       /\ IF input.self.tag = "Ok"
            THEN InvokedOnce(input.fn, <<input.self.value>>)
            ELSE InvokedNone
       /\ outcome.kind = "return" => outcome.value = input.self
       /\ input.fn.k # "throws" => outcome.kind = "return"
  /\ op = "Result.inspectErr" =>
       /\ IF input.self.tag = "Err"
            THEN InvokedOnce(input.fn, <<input.self.error>>)
            ELSE InvokedNone
       /\ outcome.kind = "return" => outcome.value = input.self
       /\ input.fn.k # "throws" => outcome.kind = "return"

\* inspectErr on an Err ran a function returning another value and gave the
\* Err back.
C25_Witness ==
  /\ op = "Result.inspectErr"
  /\ input.self.tag = "Err"
  /\ input.fn.k = "const"
  /\ input.fn.ret # input.self.error
  /\ Len(outcome.calls) = 1
  /\ outcome.value = input.self

(***************************************************************************)
(* Containers and arrays as objects.  heap is the sequence of the objects  *)
(* a client has made, a reference is an index into it, and an array of     *)
(* containers holds references.  frame is the running call of all or any:  *)
(* the array it was given, the position of its for-of loop, its local      *)
(* accumulator (values or errors) and the indices of the elements the loop *)
(* has read so far.  The loop is taken one iteration at a time; the other  *)
(* methods have no loop and are one step each.                             *)
(***************************************************************************)
HeapValues == {Lit("42"), Lit("0")}

IsContainer(o) == "tag" \in DOMAIN o

RefArray(items) == [ty |-> "refs", items |-> items]

ResultRefs ==
  {r \in 1..Len(heap) : IsContainer(heap[r]) /\ heap[r].tag \in {"Ok", "Err"}}

OptionRefs ==
  {r \in 1..Len(heap) :
     IsContainer(heap[r]) /\ heap[r].tag \in {"Some", "None"}}

ArrayRefs == {r \in 1..Len(heap) : ~IsContainer(heap[r])}

\* The heap after a call returned container c.value: the client keeps it as
\* a new object unless it already has that container.
Returned(h, c) ==
  IF c.kind = "return" /\ Len(h) < MaxHeap
       /\ \A r \in 1..Len(h) : h[r] # c.value
    THEN Append(h, c.value)
    ELSE h

\* The frame of a call of f on the array a, before the first iteration.
Entered(f, a) ==
  [pc |-> "loop", f |-> f, results |-> a, i |-> 1, values |-> <<>>,
   examined |-> <<>>, ret |-> [kind |-> "none"]]

\* The frame after a return statement.
Exited(fr, c) == [fr EXCEPT !.pc = "done", !.ret = c]

\* The frame after the loop read the element at its position.
Read(fr) == [fr EXCEPT !.examined = Append(@, fr.i)]

\* A variant of the iteration of Result.all that notes the first Err and
\* goes on to the end of the array before it returns.
Result_all_step_noexit(h, fr) ==
  LET results == h[fr.results].items
  IN IF fr.i > Len(results)
       THEN [heap |-> h,
             frame |-> Exited(fr, IF \E j \in 1..Len(results) :
                                       h[results[j]].tag = "Err"
                                    THEN Return(h[results[
                                           CHOOSE j \in 1..Len(results) :
                                             /\ h[results[j]].tag = "Err"
                                             /\ \A k \in 1..(j - 1) :
                                                  h[results[k]].tag = "Ok"]])
                                    ELSE Result_ok(Arr(fr.values)))]
       ELSE LET r == h[results[fr.i]]
            IN [heap |-> h,
                frame |-> [Read(fr) EXCEPT
                             !.i = @ + 1,
                             !.values = IF r.tag = "Ok"
                                          THEN Append(@, r.value) ELSE @]]

\* One iteration of the for-of loop of Result.all, or the return after it.
Result_all_step(h, fr) ==
  LET results == h[fr.results].items
  IN IF fr.i > Len(results)
       THEN [heap |-> h, frame |-> Exited(fr, Result_ok(Arr(fr.values)))]
       ELSE LET r == h[results[fr.i]]
            IN IF Result_isErr(r).value
                 THEN [heap |-> h, frame |-> Exited(Read(fr), Return(r))]
                 ELSE [heap |-> h,
                       frame |-> [Read(fr) EXCEPT
                                    !.i = @ + 1,
                                    !.values =
                                      Append(@, Result_unwrap(r).value)]]

\* One iteration of the for-of loop of Result.any, or the return after it.
Result_any_step(h, fr) ==
  LET results == h[fr.results].items
  IN IF fr.i > Len(results)
       THEN [heap |-> h, frame |-> Exited(fr, Result_err(Arr(fr.values)))]
       ELSE LET r == h[results[fr.i]]
            IN IF Result_isOk(r).value
                 THEN [heap |-> h, frame |-> Exited(Read(fr), Return(r))]
                 ELSE LET c == Result_unwrapOrElse(r, Const(Undefined))
                      IN [heap |-> h,
                          frame |-> [Read(fr) EXCEPT
                                       !.i = @ + 1,
                                       !.values =
                                         Append(@, c.calls[1].args[1])]]

\* A variant of the iteration of Option.all that consumes the array it is
\* given: it takes each element off the front of the array (shift).
Option_all_step_shift(h, fr) ==
  LET options == h[fr.results].items
  IN IF options = <<>>
       THEN [heap |-> h, frame |-> Exited(fr, Option_some(Arr(fr.values)))]
       ELSE LET o == h[options[1]]
                taken == [h EXCEPT ![fr.results].items = Tail(options)]
            IN IF Option_isNone(o).value
                 THEN [heap |-> taken,
                       frame |-> Exited(Read(fr), Option_none)]
                 ELSE [heap |-> taken,
                       frame |-> [Read(fr) EXCEPT
                                    !.i = @ + 1,
                                    !.values =
                                      Append(@, Option_unwrap(o).value)]]

\* One iteration of the for-of loop of Option.all, or the return after it.
Option_all_step(h, fr) ==
  LET options == h[fr.results].items
  IN IF fr.i > Len(options)
       THEN [heap |-> h, frame |-> Exited(fr, Option_some(Arr(fr.values)))]
       ELSE LET o == h[options[fr.i]]
            IN IF Option_isNone(o).value
                 THEN [heap |-> h, frame |-> Exited(Read(fr), Option_none)]
                 ELSE [heap |-> h,
                       frame |-> [Read(fr) EXCEPT
                                    !.i = @ + 1,
                                    !.values =
                                      Append(@, Option_unwrap(o).value)]]

\* One iteration of the for-of loop of Option.any, or the return after it.
Option_any_step(h, fr) ==
  LET options == h[fr.results].items
  IN IF fr.i > Len(options)
       THEN [heap |-> h, frame |-> Exited(fr, Option_none)]
       ELSE LET o == h[options[fr.i]]
            IN IF Option_isSome(o).value
                 THEN [heap |-> h, frame |-> Exited(Read(fr), Return(o))]
                 ELSE [heap |-> h, frame |-> [Read(fr) EXCEPT !.i = @ + 1]]

\* No call of all or any is running.
Quiet == frame.pc = "idle"

New_Result_ok ==
  /\ Quiet
  /\ Len(heap) < MaxHeap
  /\ \E value \in HeapValues : heap' = Append(heap, Result_ok(value).value)
  /\ UNCHANGED <<op, input, outcome, tasks, cur, obs, steps, frame>>

New_Result_err ==
  /\ Quiet
  /\ Len(heap) < MaxHeap
  /\ \E error \in HeapValues : heap' = Append(heap, Result_err(error).value)
  /\ UNCHANGED <<op, input, outcome, tasks, cur, obs, steps, frame>>

New_Option_some ==
  /\ Quiet
  /\ Len(heap) < MaxHeap
  /\ \E value \in HeapValues : heap' = Append(heap, Option_some(value).value)
  /\ UNCHANGED <<op, input, outcome, tasks, cur, obs, steps, frame>>

New_Option_none ==
  /\ Quiet
  /\ Len(heap) < MaxHeap
  /\ heap' = Append(heap, Option_none.value)
  /\ UNCHANGED <<op, input, outcome, tasks, cur, obs, steps, frame>>

\* The client builds an array of containers it has, all Results or all
\* Options.  It builds one such array.
New_Array ==
  /\ Quiet
  /\ Len(heap) < MaxHeap
  /\ ArrayRefs = {}
  /\ \E items \in SeqsUpTo(ResultRefs, MaxLen)
                      \cup SeqsUpTo(OptionRefs, MaxLen) :
       heap' = Append(heap, RefArray(items))
  /\ UNCHANGED <<op, input, outcome, tasks, cur, obs, steps, frame>>

On_Result_and ==
  /\ Quiet
  /\ \E self \in ResultRefs, other \in ResultRefs :
       heap' = Returned(heap, Result_and(heap[self], heap[other]))
  /\ UNCHANGED <<op, input, outcome, tasks, cur, obs, steps, frame>>

On_Result_or ==
  /\ Quiet
  /\ \E self \in ResultRefs, other \in ResultRefs :
       heap' = Returned(heap, Result_or(heap[self], heap[other]))
  /\ UNCHANGED <<op, input, outcome, tasks, cur, obs, steps, frame>>

On_Result_map ==
  /\ Quiet
  /\ \E self \in ResultRefs, value \in HeapValues :
       heap' = Returned(heap, Result_map(heap[self], Const(value)))
  /\ UNCHANGED <<op, input, outcome, tasks, cur, obs, steps, frame>>

On_Option_and ==
  /\ Quiet
  /\ \E self \in OptionRefs, other \in OptionRefs :
       heap' = Returned(heap, Option_and(heap[self], heap[other]))
  /\ UNCHANGED <<op, input, outcome, tasks, cur, obs, steps, frame>>

On_Option_or ==
  /\ Quiet
  /\ \E self \in OptionRefs, other \in OptionRefs :
       heap' = Returned(heap, Option_or(heap[self], heap[other]))
  /\ UNCHANGED <<op, input, outcome, tasks, cur, obs, steps, frame>>

On_Option_xor ==
  /\ Quiet
  /\ \E self \in OptionRefs, other \in OptionRefs :
       heap' = Returned(heap, Option_xor(heap[self], heap[other]))
  /\ UNCHANGED <<op, input, outcome, tasks, cur, obs, steps, frame>>

On_Option_zip ==
  /\ Quiet
  /\ \E self \in OptionRefs, other \in OptionRefs :
       heap' = Returned(heap, Option_zip(heap[self], heap[other]))
  /\ UNCHANGED <<op, input, outcome, tasks, cur, obs, steps, frame>>

\* The arrays of Results and the arrays of Options.  The empty array is both.
ResultArrayRefs ==
  {a \in ArrayRefs : \A j \in 1..Len(heap[a].items) :
                       heap[a].items[j] \in ResultRefs}

OptionArrayRefs ==
  {a \in ArrayRefs : \A j \in 1..Len(heap[a].items) :
                       heap[a].items[j] \in OptionRefs}

Enter_Result_all ==
  /\ Quiet
  /\ \E a \in ResultArrayRefs : frame' = Entered("Result.all", a)
  /\ UNCHANGED <<op, input, outcome, tasks, cur, obs, steps, heap>>

Enter_Result_any ==
  /\ Quiet
  /\ \E a \in ResultArrayRefs : frame' = Entered("Result.any", a)
  /\ UNCHANGED <<op, input, outcome, tasks, cur, obs, steps, heap>>

Enter_Option_all ==
  /\ Quiet
  /\ \E a \in OptionArrayRefs : frame' = Entered("Option.all", a)
  /\ UNCHANGED <<op, input, outcome, tasks, cur, obs, steps, heap>>

Enter_Option_any ==
  /\ Quiet
  /\ \E a \in OptionArrayRefs : frame' = Entered("Option.any", a)
  /\ UNCHANGED <<op, input, outcome, tasks, cur, obs, steps, heap>>

Loop_Result_all ==
  /\ frame.pc = "loop"
  /\ frame.f = "Result.all"
  /\ heap' = Result_all_step(heap, frame).heap
  /\ frame' = Result_all_step(heap, frame).frame
  /\ UNCHANGED <<op, input, outcome, tasks, cur, obs, steps>>

Loop_Result_any ==
  /\ frame.pc = "loop"
  /\ frame.f = "Result.any"
  /\ heap' = Result_any_step(heap, frame).heap
  /\ frame' = Result_any_step(heap, frame).frame
  /\ UNCHANGED <<op, input, outcome, tasks, cur, obs, steps>>

Loop_Option_all ==
  /\ frame.pc = "loop"
  /\ frame.f = "Option.all"
  /\ heap' = Option_all_step(heap, frame).heap
  /\ frame' = Option_all_step(heap, frame).frame
  /\ UNCHANGED <<op, input, outcome, tasks, cur, obs, steps>>

Loop_Option_any ==
  /\ frame.pc = "loop"
  /\ frame.f = "Option.any"
  /\ heap' = Option_any_step(heap, frame).heap
  /\ frame' = Option_any_step(heap, frame).frame
  /\ UNCHANGED <<op, input, outcome, tasks, cur, obs, steps>>

\* The caller receives what the call returned.
Leave ==
  /\ frame.pc = "done"
  /\ frame' = Idle
  /\ heap' = Returned(heap, frame.ret)
  /\ UNCHANGED <<op, input, outcome, tasks, cur, obs, steps>>

NextHeap ==
  \/ New_Result_ok
  \/ New_Result_err
  \/ New_Option_some
  \/ New_Option_none
  \/ New_Array
  \/ On_Result_and
  \/ On_Result_or
  \/ On_Result_map
  \/ On_Option_and
  \/ On_Option_or
  \/ On_Option_xor
  \/ On_Option_zip
  \/ Enter_Result_all
  \/ Enter_Result_any
  \/ Enter_Option_all
  \/ Enter_Option_any
  \/ Loop_Result_all
  \/ Loop_Result_any
  \/ Loop_Option_all
  \/ Loop_Option_any
  \/ Leave

SpecHeap == Init /\ [][NextHeap]_vars

\* The containers of the array of the running call, in order.
Elements == [j \in 1..Len(heap[frame.results].items) |->
               heap[heap[frame.results].items[j]]]

\* What the call as a whole returns on those containers.
Whole ==
  CASE frame.f = "Result.all" -> Result_all(Elements)
    [] frame.f = "Result.any" -> Result_any(Elements)
    [] frame.f = "Option.all" -> Option_all(Elements)
    [] frame.f = "Option.any" -> Option_any(Elements)

\* The loop taken by iterations returns what the call as a whole returns.
LoopAgrees == frame.pc = "done" => frame.ret.value = Whole.value

(***************************************************************************)
(* C26, C27: the order in which all and any read their array, and the      *)
(* objects no operation writes to.                                         *)
(***************************************************************************)
\* The element on which the loop of f returns.
Terminating(f, c) ==
  CASE f = "Result.all" -> c.tag = "Err"
    [] f = "Result.any" -> c.tag = "Ok"
    [] f = "Option.all" -> c.tag = "None"
    [] f = "Option.any" -> c.tag = "Some"

\* The elements read so far are those at indices 1, 2, .. n, each once; none
\* before the last is terminating; the call has returned iff the last one
\* is terminating or the array is exhausted and the loop has ended.
ReadInOrder ==
  frame.pc # "idle" =>
    LET n == Len(frame.examined)
    IN /\ n <= Len(Elements)
       /\ \A j \in 1..n : frame.examined[j] = j
       /\ \A j \in 1..n :
            Terminating(frame.f, Elements[j]) => j = n /\ frame.pc = "done"
       /\ frame.pc = "done" =>
            \/ n > 0 /\ Terminating(frame.f, Elements[n])
            \/ n = Len(Elements)

\* A step of a running call reads at most one element, the next one, and a
\* call that has returned reads nothing more.
ReadsNext ==
  (frame.pc # "idle" /\ frame'.pc # "idle") =>
    /\ frame'.results = frame.results
    /\ \/ frame'.examined = frame.examined
       \/ /\ frame.pc = "loop"
          /\ frame'.examined =
               Append(frame.examined, Len(frame.examined) + 1)
    /\ frame.pc = "done" => frame' = frame

\* C26: Result.all, Result.any, Option.all and Option.any examine the
\* elements in increasing index order, each at most once, and examine no
\* element after the first terminating one (first Err, first Ok, first None,
\* first Some respectively).
C26_AggregationOrder == []ReadInOrder /\ [][ReadsNext]_vars

\* Result.all returned at the Err in second place of three elements: it read
\* the first two and not the third.
C26_Witness ==
  /\ frame.pc = "done"
  /\ frame.f = "Result.all"
  /\ Len(Elements) = 3
  /\ Elements[2].tag = "Err"
  /\ frame.examined = <<1, 2>>
  /\ frame.ret.value = Elements[2]

\* C27: no operation changes the variant or the payload of a container that
\* exists, receiver or argument or array element, nor an array given to all
\* or any; what an operation produces is a returned container, a new object
\* at most.
C27_Immutability ==
  [][/\ Len(heap') >= Len(heap)
     /\ \A r \in 1..Len(heap) : heap'[r] = heap[r]]_vars

\* Option.all pushed two values to its accumulator and returned, the array
\* and its elements being as they were made.
C27_Witness ==
  /\ frame.pc = "done"
  /\ frame.f = "Option.all"
  /\ Len(frame.values) = 2
  /\ Len(heap[frame.results].items) = 2
  /\ \A j \in 1..2 : Elements[j].tag = "Some"
  /\ frame.ret.value = Some(Arr(<<Elements[1].value, Elements[2].value>>))

(***************************************************************************)
(* C28, C29: aggregation against conversion, eager against lazy.           *)
(***************************************************************************)
\* C28: Result.all(rs).toOption() has the variant and payload of
\* Option.all(rs.map(r => r.toOption())), and Result.any(rs).toOption() those
\* of Option.any(rs.map(r => r.toOption())), for every array rs of Results.
C28_AggregationCommutes ==
  /\ op = "Result.all.toOption" =>
       SameContainer(outcome, Option_all(ToOptions(input.results)))
  /\ op = "Option.all(map toOption)" =>
       SameContainer(outcome,
                     Then(Result_all(input.results),
                          LAMBDA r : Result_toOption(r)))
  /\ op = "Result.any.toOption" =>
       SameContainer(outcome, Option_any(ToOptions(input.results)))
  /\ op = "Option.any(map toOption)" =>
       SameContainer(outcome,
                     Then(Result_any(input.results),
                          LAMBDA r : Result_toOption(r)))

\* Result.all of three Ok, converted, is Some of the three values.
C28_Witness ==
  /\ op = "Result.all.toOption"
  /\ Len(input.results) = 3
  /\ \A j \in 1..3 : input.results[j].tag = "Ok"
  /\ input.results[1] # input.results[2]
  /\ outcome.value = Some(Arr([j \in 1..3 |-> input.results[j].value]))

\* A completion without its log of invocations: what was returned or raised.
Sans(c) == [c EXCEPT !.calls = <<>>]

\* C29: c.or(x) is c.orElse(() => x), c.and(x) is c.andThen(() => x),
\* c.unwrapOr(d) is c.unwrapOrElse(() => d), c.mapOr(d, f) is
\* c.mapOrElse(() => d, f) and o.toResult(e) is o.toResultElse(() => e), on
\* both variants of both containers.
C29_EagerLazy ==
  LET self == input.self
  IN /\ op = "Result.or" =>
          Sans(outcome) = Sans(Result_orElse(self, Bind(input.other)))
     /\ op = "Option.or" =>
          Sans(outcome) = Sans(Option_orElse(self, Bind(input.other)))
     /\ op = "Result.and" =>
          Sans(outcome) = Sans(Result_andThen(self, Bind(input.other)))
     /\ op = "Option.and" =>
          Sans(outcome) = Sans(Option_andThen(self, Bind(input.other)))
     /\ op = "Result.unwrapOr" =>
          Sans(outcome)
            = Sans(Result_unwrapOrElse(self, Const(input.defaultValue)))
     /\ op = "Option.unwrapOr" =>
          Sans(outcome)
            = Sans(Option_unwrapOrElse(self, Const(input.defaultValue)))
     /\ op = "Result.mapOr" =>
          Sans(outcome)
            = Sans(Result_mapOrElse(self, Const(input.defaultValue), input.fn))
     /\ op = "Option.mapOr" =>
          Sans(outcome)
            = Sans(Option_mapOrElse(self, Const(input.defaultValue), input.fn))
     /\ op = "Option.toResult" =>
          Sans(outcome) = Sans(Option_toResultElse(self, Const(input.error)))
     /\ (op = "Result.orElse" /\ input.fn.k = "bind") =>
          Sans(outcome) = Sans(Result_or(self, input.fn.to))
     /\ (op = "Result.andThen" /\ input.fn.k = "bind") =>
          Sans(outcome) = Sans(Result_and(self, input.fn.to))
     /\ (op = "Option.orElse" /\ input.fn.k = "bind") =>
          Sans(outcome) = Sans(Option_or(self, input.fn.to))
     /\ (op = "Option.andThen" /\ input.fn.k = "bind") =>
          Sans(outcome) = Sans(Option_and(self, input.fn.to))
     /\ (op = "Result.unwrapOrElse" /\ input.fn.k = "const") =>
          Sans(outcome) = Sans(Result_unwrapOr(self, input.fn.ret))
     /\ (op = "Option.unwrapOrElse" /\ input.fn.k = "const") =>
          Sans(outcome) = Sans(Option_unwrapOr(self, input.fn.ret))
     /\ (op = "Option.toResultElse" /\ input.fn.k = "const") =>
          Sans(outcome) = Sans(Option_toResult(self, input.fn.ret))

\* unwrapOr on an Err answered the default, which is not the error.
C29_Witness ==
  /\ op = "Result.unwrapOr"
  /\ input.self.tag = "Err"
  /\ input.defaultValue # input.self.error
  /\ input.defaultValue # Undefined
  /\ outcome.value = input.defaultValue

(***************************************************************************)
(* C30: tryAsync calls in flight at the same time.                         *)
(***************************************************************************)
\* The Result that the outcome of its own fn gives call t.
OwnResult(t) ==
  IF t.fn.k = "throws" THEN Err(t.fn.x)
  ELSE IF t.q.state = "fulfilled" THEN Ok(t.q.value)
  ELSE Err(t.q.reason)

\* Every finished call holds the Result of its own fn, and a call whose fn
\* has settled can resume whatever the other calls are doing.
OwnOutcome ==
  \A i \in 1..MaxAsync :
    /\ tasks[i].pc = "done" => tasks[i].p = Fulfilled(OwnResult(tasks[i]))
    /\ (tasks[i].pc = "awaiting" /\ Settled(i)) => ENABLED Resume(i)

\* A step of one call leaves every other call as it was, and a finished call
\* stays as it is.
OneCallPerStep ==
  \A i \in 1..MaxAsync :
    /\ tasks'[i] # tasks[i] =>
         \A j \in 1..MaxAsync \ {i} : tasks'[j] = tasks[j]
    /\ tasks[i].pc = "done" => tasks'[i] = tasks[i]

\* C30: with several tryAsync calls in flight, in every order of settlement,
\* the Result of each call is the one of its own fn; a settlement of one call
\* does not change or replace the Result of another, nor keep another from
\* producing its Result once its own fn has settled.
C30_Independence ==
  /\ []OwnOutcome
  /\ [][OneCallPerStep]_vars
  /\ \A i \in 1..MaxAsync :
       (tasks[i].pc = "awaiting" /\ Settled(i)) ~> Produced(i)

\* The second call, suspended on a promise that rejected, has produced its
\* Err while the first call, whose fn has fulfilled, has not resumed yet.
C30_Witness ==
  /\ tasks[1].pc = "awaiting"
  /\ tasks[1].q.state = "fulfilled"
  /\ tasks[2].pc = "done"
  /\ tasks[2].fn = Const(Pending)
  /\ tasks[2].q.state = "rejected"
  /\ tasks[2].p = Fulfilled(Err(tasks[2].q.reason))
====
